---- MODULE Spec2Model ----
(***************************************************************************)
(* Crawl orchestration and content-addressed deduplication of              *)
(* german_newspaper_crawler: the generic per-domain pipeline               *)
(* (lib/common/web_requests.py, driven by scr/german_newspaper_crawler.py),*)
(* the legacy threaded main loop (scr/german_newspapaer_crawler.py) and    *)
(* the store adapter (lib/common/mongodb.py).                              *)
(***************************************************************************)
EXTENDS Naturals, Integers, Sequences, FiniteSets, TLC

VARIABLES
    wiring,       \* who calls process_domain_generic: "main" or "callbacks"
    web,          \* url -> page served (or FetchError): the network
    store,        \* the documents of the database (all collections)
    oid,          \* next server-assigned document id
    known,        \* the known_hashes set of the running process
    calls,        \* number of process_domain_generic calls made so far
    taken,        \* number of candidate URLs handed to those calls so far
    pc,           \* position of the generic pipeline
    urls,         \* URLs of the current call not yet taken up
    html,         \* body fetched for the current URL
    obj,          \* article being processed for the current URL
    upres,        \* outcome of the upsert call for the current URL
    done,         \* per-URL records of the current call, in processing order
    knownAtCall,  \* known_hashes as passed into the current call
    ret,          \* return value of the last process_domain_generic call
    plugin,       \* legacy main: the domain class configured by class_path
    lm,           \* legacy main: the main thread (position, run, locals)
    future,       \* legacy main: url -> the _fetch_and_parse future of the URL
    seq,          \* the "seq" counter of the collection in __counters__
    lock,         \* holder of parallel_fetcher._known_hashes_lock, or "free"
    accesses,     \* the kinds of access to the shared known-hash set made so far
    uw,           \* concurrent upsert_article callers: worker -> its state
    uidx,         \* single upsert_article call: fields with a unique index
    writes,       \* single upsert_article call: the update_one calls issued
    dl,           \* the domain loop of a main: configuration, position, outcome
    stop,         \* scheduler._stop, set by the signal handler
    sq,           \* concurrent _get_next_sequence callers: start value, returns
    om,           \* object_model: _next_internal_id, constructing threads, instances
    sc,           \* the scan of the database for known hashes
    pf,           \* parallel_fetcher.download_urls: futures and results
    sch,          \* scheduler.main: position, configuration, handlers, runs
    rt            \* an ObjectModel taken through to_dict and from_dict

genericVars == <<wiring, calls, taken, pc, urls, html, obj, upres, done,
                 knownAtCall, ret>>
legacyVars == <<plugin, lm, future, seq, lock, accesses>>
storeCallVars == <<uidx, writes, dl, stop, sq, om, sc, pf, sch, rt>>

vars == <<wiring, web, store, oid, known, calls, taken, pc, urls, html, obj, upres,
          done, knownAtCall, ret, plugin, lm, future, seq, lock, accesses, uw,
          uidx, writes, dl, stop, sq, om, sc, pf, sch, rt>>

(***************************************************************************)
(* Bounds of the model                                                     *)
(***************************************************************************)
MaxCalls == 2        \* process_domain_generic calls (domains) per behaviour
MaxRuns == 2         \* runs of the legacy main over the same store
MaxWorkers == 2      \* concurrent callers of upsert_article
MaxDomains == 3      \* configured domains of a run
MaxUrls == 2         \* candidate URLs handed to the pipeline per behaviour
MaxStart == 2        \* largest counter value the concurrent callers start from
MaxSeqCalls == 3     \* calls of _get_next_sequence by one worker
MaxSeqFails == 1     \* calls of _get_next_sequence that find the store down
MaxConstructions == 2 \* threads that each build one ObjectModel
MaxId == 1           \* largest _id or id handed to a constructor or found in a dict
MaxCollections == 3  \* collections of the scanned database
MaxDownloads == 2    \* entries of the URL list given to download_urls
MaxWait == 2         \* seconds from the computation of next_dt to next_dt
MaxAttempts == 3     \* _run_crawler calls of one scheduler.main
MaxSignals == 2      \* SIGINT/SIGTERM deliveries to one scheduler.main

(***************************************************************************)
(* Values                                                                  *)
(***************************************************************************)
None == "None"                   \* Python None
Unhashable == "<unhashable>"     \* a truthy value that is no str and cannot be
                                 \* hashed (a list): `x in a_set` raises TypeError
FetchError == "<fetch-error>"    \* requests raised / HTTP error status
U1 == "https://x.test/1"
U2 == "https://x.test/2"
URLs == {U1, U2}
PageA == "<p>A</p>"
PageB == "<p>B</p>"
Pages == {PageA, PageB}
Preset == "preset-hash"          \* a fingerprint pre-computed by a parser
NoneId == -1                     \* an _id or id that is None; the ids given are >= 0
Coll == "taz"                    \* collection of the processed domain

\* Python truthiness of the optional-string values used here
Falsy(v) == v \in {None, ""}

\* `a or b`
Or(a, b) == IF Falsy(a) THEN b ELSE a

\* str.startswith(("http://", "https://")) guarded by isinstance(u, str)
IsHttpUrl(u) == u \in URLs

\* str.strip() on the strings of the model
Strip(s) ==
    CASE s = " A " -> "A"
      [] s = " B " -> "B"
      [] s = " " -> ""
      [] OTHER -> s

\* re.sub(r"<[^>]+>", " ", html or "")
StripTags(h) ==
    CASE h = PageA -> " A "
      [] h = PageB -> " B "
      [] OTHER -> IF Falsy(h) THEN "" ELSE h

\* hashlib.sha256(s.encode("utf-8")).hexdigest(): injective on the model's strings
sha256_hex(s) == "sha256:" \o s

(***************************************************************************)
(* ObjectModel                                                             *)
(***************************************************************************)
\* the content_hash fallback of a __post_init__ that hashes the content only
\* for the first instance of the process
post_init_hash_first_only(url, h, text, ch) ==
    IF ch = None /\ IsHttpUrl(url) THEN sha256_hex(url)
    ELSE IF ch = None
         THEN LET data == Strip(Or(Or(text, h), ""))
              IN IF data # "" /\ om.next = 0 THEN sha256_hex(data) ELSE None
         ELSE ch

\* ObjectModel.__post_init__: the content_hash fallback
post_init_hash(url, h, text, ch) ==
    IF ch = None /\ IsHttpUrl(url) THEN sha256_hex(url)
    ELSE IF ch = None
         THEN LET data == Strip(Or(Or(text, h), ""))
              IN IF data # "" THEN sha256_hex(data) ELSE None
         ELSE ch

\* ObjectModel(url=..., html=..., text=..., content_hash=...)
ObjectModel(url, h, text, ch) ==
    [url |-> url, html |-> h, text |-> text,
     content_hash |-> post_init_hash(url, h, text, ch)]

NoObj == [url |-> None, html |-> None, text |-> None, content_hash |-> None]

\* What a domain's parse_article may hand back for (url, html): nothing (no
\* parser configured, or it raised), or an article (an ObjectModel or a dict)
\* whose url is the candidate URL or unset, whose text is the extracted text,
\* and whose content_hash is unset, pre-computed, or not a string at all.
ParseResults(url, h) ==
    {[kind |-> "none", url |-> None, text |-> None, content_hash |-> None]}
    \cup
    {[kind |-> "article", url |-> u, text |-> Strip(StripTags(h)), content_hash |-> c] :
        u \in {url, None},
        c \in {None, Preset, Unhashable}}

\* _coerce_to_objectmodel(result, url, html)
coerce_to_objectmodel(r, url, h) ==
    IF r.kind = "article"
    THEN ObjectModel(r.url, h, r.text, r.content_hash)
    ELSE ObjectModel(url, h, StripTags(h), None)

(***************************************************************************)
(* The store (MongoDB) and the store adapter                               *)
(***************************************************************************)
\* A document id: server-assigned ("oid"), counter-assigned ("seq") or a URL
DocId(kind, n, s) == [kind |-> kind, n |-> n, s |-> s]

\* ObjectModel.to_dict() with _id popped, as written by upsert_article
to_dict(o) ==
    [url |-> o.url, id |-> None, html |-> o.html, text |-> o.text,
     content_hash |-> o.content_hash]

Document(id, coll, d) ==
    [_id |-> id, coll |-> coll, url |-> d.url, id |-> d.id, html |-> d.html,
     text |-> d.text, content_hash |-> d.content_hash]

CollectionDocs(st, coll) == {d \in st : d.coll = coll}

\* Documents of a collection matching the query {field: val}
Matching(st, coll, field, val) ==
    {d \in CollectionDocs(st, coll) :
        IF field = "content_hash" THEN d.content_hash = val ELSE d.url = val}

\* collection.update_one(query, {"$set": doc}, upsert=True), executed alone:
\* the stores that may result (one matching document updated, or one inserted)
update_one_upsert(st, coll, field, val, d, newId) ==
    IF Matching(st, coll, field, val) # {}
    THEN {(st \ {m}) \cup {Document(m._id, coll, d)} :
            m \in Matching(st, coll, field, val)}
    ELSE {st \cup {Document(newId, coll, d)}}

\* the key selection without its URL fallback: always the content_hash
upsert_query_hash_only(o) == [field |-> "content_hash", val |-> o.content_hash]

\* upsert_article: the query key, content_hash preferred
\* (`isinstance(content_hash, str) and content_hash`), url otherwise
upsert_query(o) ==
    IF ~Falsy(o.content_hash) /\ o.content_hash # Unhashable
    THEN [field |-> "content_hash", val |-> o.content_hash]
    ELSE [field |-> "url", val |-> o.url]

\* upsert_article: "skip empty extracts"
empty_extract(o) == Strip(Or(o.html, "")) = "" /\ Strip(Or(o.text, "")) = ""

\* collect_content_hashes_from_collection(collection); `known_hashes.add(ch)`
\* raises on a content_hash that cannot be hashed
collect_from_collection_raises(docs) ==
    \E d \in docs : d.content_hash = Unhashable

collect_content_hashes_from_collection(docs) ==
    {d.content_hash : d \in {x \in docs : ~Falsy(x.content_hash)}}

\* refresh_known_hashes_for_collection(collection, known_hashes): known_hashes
\* is None (passKnown false: a new set of the collection's hashes) or a set;
\* on an exception `known_hashes or set()`
refresh_known_hashes_for_collection(docs, passKnown, kn) ==
    IF collect_from_collection_raises(docs)
    THEN IF passKnown THEN kn ELSE {}
    ELSE IF passKnown THEN kn \cup collect_content_hashes_from_collection(docs)
    ELSE collect_content_hashes_from_collection(docs)

\* collect_content_hashes_from_db (lib.common.mongodb): content-aware scan
collect_content_hashes_from_db(st) ==
    {d.content_hash : d \in {x \in st : ~Falsy(x.content_hash)
                                        /\ x.content_hash # Unhashable}}
    \cup
    {sha256_hex(Or(d.url, d.id)) :
        d \in {x \in st : /\ (Falsy(x.content_hash) \/ x.content_hash = Unhashable)
                          /\ (Strip(Or(x.text, "")) # "" \/ Strip(Or(x.html, "")) # "")
                          /\ IsHttpUrl(Or(x.url, x.id))}}

\* collect_known_hashes answering from the documents whatever the scan did
collect_known_hashes_unguarded(st, scanOk) ==
    collect_content_hashes_from_db(st)

\* collect_known_hashes: the scan, or an empty set when the scan fails
collect_known_hashes(st, scanOk) ==
    IF scanOk THEN collect_content_hashes_from_db(st) ELSE {}

(***************************************************************************)
(* Call shapes: a Python call with a number of positional arguments the    *)
(* callee does not accept raises TypeError before the callee runs          *)
(***************************************************************************)
UpsertArticleParams == 3       \* upsert_article(collection, obj, input_url)
UpsertCallArgs == 4            \* upsert_article(mongo_client, db_name, collection_name, obj)
RefreshParamsMin == 1          \* refresh_known_hashes_for_collection(collection,
RefreshParamsMax == 2          \*                                     known_hashes=None)
RefreshCallArgs == 3           \* refresh...(mongo_client, db_name, collection_name)

CallRaisesTypeError(nargs, minParams, maxParams) ==
    nargs < minParams \/ nargs > maxParams

\* german_newspaper_crawler.main passes lib.common.mongodb.upsert_article
main_upsert_raises ==
    CallRaisesTypeError(UpsertCallArgs, UpsertArticleParams, UpsertArticleParams)

\* german_newspaper_crawler.main passes
\* lib.common.mongodb.refresh_known_hashes_for_collection
main_refresh_raises ==
    CallRaisesTypeError(RefreshCallArgs, RefreshParamsMin, RefreshParamsMax)

(***************************************************************************)
(* process_domain_generic: the hash candidates of the post-parse check     *)
(***************************************************************************)
\* url_hash of the known-hash block: SHA-256 of the article's url if it is an http(s) URL
url_hash(o) == IF IsHttpUrl(o.url) THEN sha256_hex(o.url) ELSE None

\* `obj.content_hash in known_hashes` raises TypeError on an unhashable
\* content_hash: the except clause of the block logs it and the comparisons
\* that follow are not made
check_block_raises(o) == o.content_hash = Unhashable

\* content_hash_calc of the known-hash block: SHA-256 of the trimmed text-or-html
content_hash_calc(o) ==
    LET data == Strip(Or(Or(o.text, o.html), ""))
    IN IF data # "" THEN sha256_hex(data) ELSE None

\* "If obj already has content_hash keep it; otherwise prefer content hash,
\* fallback to url hash"
assign_content_hash(o) ==
    IF Falsy(o.content_hash)
    THEN [o EXCEPT !.content_hash = Or(content_hash_calc(o), url_hash(o))]
    ELSE o

\* The three comparisons against known_hashes, in the code's order: the
\* article as left by the block, and whether the URL is skipped
check_known(o, kn) ==
    LET a == assign_content_hash(o) IN
    IF ~Falsy(a.content_hash) /\ a.content_hash \in kn
    THEN [obj |-> a, skip |-> TRUE]
    ELSE IF ~Falsy(url_hash(a)) /\ url_hash(a) \in kn
    THEN [obj |-> [a EXCEPT !.content_hash = url_hash(a)], skip |-> TRUE]
    ELSE IF ~Falsy(content_hash_calc(a)) /\ content_hash_calc(a) \in kn
    THEN [obj |-> [a EXCEPT !.content_hash = content_hash_calc(a)], skip |-> TRUE]
    ELSE [obj |-> a, skip |-> FALSE]

\* "Re-check known hashes in case pos_tag_fn or other steps modified
\* content_hash"; a TypeError of the membership test is logged
recheck_skips(o, kn) ==
    ~Falsy(o.content_hash) /\ o.content_hash # Unhashable /\ o.content_hash \in kn

\* `known_hashes.add(obj.content_hash)` is outside any try block
register_raises(o) == o.content_hash = Unhashable

\* a loop that does not add the hash of the handled article
register_hash_never(o, kn, res) == kn

\* known_hashes.add(obj.content_hash) without the test of the hash
register_hash_always(o, kn, res) == kn \cup {o.content_hash}

\* `if obj.content_hash: known_hashes.add(obj.content_hash)` after the upsert
\* call, whatever its outcome res was
register_hash(o, kn, res) ==
    IF ~Falsy(o.content_hash) THEN kn \cup {o.content_hash} ELSE kn

\* main_return had the refresh call been accepted: the fresh set of the
\* collection's hashes is returned in place of known_hashes
main_return_refreshed(kn, docs) ==
    refresh_known_hashes_for_collection(docs, FALSE, kn)

\* What process_domain_generic returns under main's wiring
main_return(kn, docs) ==
    IF main_refresh_raises THEN kn
    ELSE refresh_known_hashes_for_collection(docs, FALSE, kn)

(***************************************************************************)
(* Initial states                                                          *)
(***************************************************************************)
\* The network: what each URL serves, the same on every fetch of a behaviour
Webs ==
    {[u \in URLs |-> IF u = U1 THEN PageA ELSE PageB],
     [u \in URLs |-> IF u = U1 THEN FetchError ELSE PageA]}

\* The database before the run: empty, or holding the article of U1 as an
\* earlier run stored it
StoredU1 ==
    Document(DocId("oid", 0, ""), Coll, to_dict(ObjectModel(U1, PageA, " A ", None)))

InitStores == {{}, {StoredU1}}

\* Candidate URL lists (get_article_urls / article_urls): any order, repeats
UrlLists == UNION {[1..n -> URLs] : n \in 0..MaxUrls}

\* known_hashes sets a direct caller of process_domain_generic may pass
CallerKnownSets == {{}, {sha256_hex(U1)}}

\* the legacy main is not running
NoLegacyObj == [id |-> None, html |-> None, text |-> None, content_hash |-> None]
NoFuture == [st |-> "none", status |-> "none", obj |-> NoLegacyObj]
LmIdle ==
    [pc |-> "idle", run |-> 0, urls |-> {}, prevUrls |-> {}, cur |-> None,
     docId |-> DocId("none", 0, ""), seedOk |-> FALSE, storeFailed |-> FALSE,
     idsAtStart |-> {}]
LegacyIdle ==
    /\ plugin = "none"
    /\ lm = LmIdle
    /\ future = [u \in URLs |-> NoFuture]
    /\ seq = 0
    /\ lock = "free"
    /\ accesses = {}

\* no _get_next_sequence caller is being followed
SqIdle == [start |-> 0, seq |-> 0, rets |-> <<>>, fails |-> 0]

\* no ObjectModel is being serialized
RtIdle == [pc |-> "idle", next |-> 0, kwargs |-> <<>>, art |-> <<>>, dict |-> <<>>,
           back |-> <<>>]

\* scheduler.main has not been called
SchIdle ==
    [pc |-> "idle", enabled |-> FALSE, time_ok |-> TRUE, handlers |-> FALSE,
     initial |-> FALSE, secs |-> 0, attempts |-> 0, runs |-> 0,
     outcome |-> "none", signals |-> 0, path |-> "none", ret |-> NoneId]

\* download_urls has not been called
PfIdle ==
    [pc |-> "idle", urls |-> <<>>, net |-> <<>>, max_workers |-> 1,
     shared |-> FALSE, known |-> {}, submits |-> <<>>, fut |-> <<>>,
     res |-> <<>>, results |-> <<>>, requests |-> <<>>, tmp |-> {}, final |-> {}]

\* no scan of the database has been started
ScIdle ==
    [fn |-> "none", pc |-> "idle", names |-> <<>>, mode |-> <<>>, i |-> 1,
     hashes |-> {}]

\* no ObjectModel is being constructed: the module was just imported
OmIdle == [next |-> 0, seen |-> NoneId, th |-> <<>>, objs |-> <<>>]

\* no domain loop is being followed
DlIdle ==
    [prog |-> "none", cfg |-> <<>>, i |-> 1, visited |-> {}, crawled |-> {},
     finished |-> FALSE, rc |-> 0]

\* no single upsert_article call is being followed
StoreCallIdle ==
    /\ uidx = {}
    /\ writes = <<>>
    /\ dl = DlIdle
    /\ stop = FALSE
    /\ sq = SqIdle
    /\ om = OmIdle
    /\ sc = ScIdle
    /\ pf = PfIdle
    /\ sch = SchIdle
    /\ rt = RtIdle

Init ==
    /\ wiring \in {"main", "callbacks"}
    /\ web \in Webs
    /\ store \in InitStores
    /\ oid = 1
    /\ known = {}
    /\ calls = 0
    /\ taken = 0
    /\ pc = "start"
    /\ urls = <<>>
    /\ html = None
    /\ obj = NoObj
    /\ upres = "none"
    /\ done = <<>>
    /\ knownAtCall = {}
    /\ ret = {}
    /\ LegacyIdle
    /\ uw = <<>>
    /\ StoreCallIdle

(***************************************************************************)
(* german_newspaper_crawler.main and process_domain_generic                *)
(***************************************************************************)
pdgLocals == <<urls, html, obj, upres, done, knownAtCall, ret>>

\* main: "collect known hashes globally"
Seed ==
    /\ UNCHANGED <<legacyVars, uw, uidx, writes, dl, stop, sq, om, pf, sch, rt>>
    /\ pc = "start" /\ wiring = "main"
    /\ \E scanOk \in BOOLEAN :
        /\ known' = collect_known_hashes(store, scanOk)
        /\ sc' = [ScIdle EXCEPT !.fn = "mongodb",
                                !.pc = IF scanOk THEN "returned" ELSE "failed"]
    /\ pc' = "domain"
    /\ UNCHANGED <<wiring, web, store, oid, calls, taken, pdgLocals>>

\* a direct caller supplies known_hashes
CallerKnown ==
    /\ UNCHANGED <<legacyVars, uw, storeCallVars>>
    /\ pc = "start" /\ wiring = "callbacks"
    /\ known' \in CallerKnownSets
    /\ pc' = "domain"
    /\ UNCHANGED <<wiring, web, store, oid, calls, taken, pdgLocals>>

\* process_domain_generic is entered with a URL list
PdgCall ==
    /\ UNCHANGED <<legacyVars, uw, storeCallVars>>
    /\ pc = "domain" /\ calls < MaxCalls
    /\ \E us \in UrlLists :
        /\ Len(us) <= MaxUrls - taken
        /\ urls' = us
        /\ taken' = taken + Len(us)
        /\ pc' = IF us = <<>> THEN "return" ELSE "fetch"
    /\ calls' = calls + 1
    /\ done' = <<>>
    /\ knownAtCall' = known
    /\ html' = None /\ obj' = NoObj /\ upres' = "none"
    /\ UNCHANGED <<wiring, web, store, oid, known, ret>>

\* the URL is finished: its record is kept and the loop goes on
NextUrl(o, res) ==
    /\ done' = Append(done, [url |-> Head(urls), obj |-> o, res |-> res])
    /\ urls' = Tail(urls)
    /\ pc' = IF Tail(urls) = <<>> THEN "return" ELSE "fetch"
    /\ html' = None /\ obj' = NoObj /\ upres' = "none"

\* fetch_url, its failure degraded to html = ""
Fetch ==
    /\ UNCHANGED <<legacyVars, uw, storeCallVars>>
    /\ pc = "fetch"
    /\ html' = IF web[Head(urls)] = FetchError THEN "" ELSE web[Head(urls)]
    /\ pc' = "parse"
    /\ UNCHANGED <<wiring, web, store, oid, known, calls, taken, urls, obj, upres,
                   done, knownAtCall, ret>>

\* parse_fn and _coerce_to_objectmodel
Parse ==
    /\ UNCHANGED <<legacyVars, uw, storeCallVars>>
    /\ pc = "parse"
    /\ \E r \in ParseResults(Head(urls), html) :
        obj' = coerce_to_objectmodel(r, Head(urls), html)
    /\ pc' = "check"
    /\ UNCHANGED <<wiring, web, store, oid, known, calls, taken, urls, html, upres,
                   done, knownAtCall, ret>>

\* lines 137-140: the call parse_fn(url, html) raised TypeError, whether from
\* its signature or from inside the parser; the except TypeError clause
\* calls parse_fn(url)
ParseTypeError ==
    /\ UNCHANGED <<legacyVars, uw, storeCallVars>>
    /\ pc = "parse"
    /\ pc' = "reparse"
    /\ UNCHANGED <<wiring, web, store, oid, known, calls, taken, urls, html, obj,
                   upres, done, knownAtCall, ret>>

\* line 140 and 150: the second call parse_fn(url) returns
Reparse ==
    /\ UNCHANGED <<legacyVars, uw, storeCallVars>>
    /\ pc = "reparse"
    /\ \E r \in ParseResults(Head(urls), html) :
        obj' = coerce_to_objectmodel(r, Head(urls), html)
    /\ pc' = "check"
    /\ UNCHANGED <<wiring, web, store, oid, known, calls, taken, urls, html, upres,
                   done, knownAtCall, ret>>

\* line 140: the second call parse_fn(url) raises; it runs inside the except
\* clause, no handler covers it, the exception leaves process_domain_generic
\* and main logs it (german_newspaper_crawler.py 114-115)
ReparseRaises ==
    /\ UNCHANGED <<legacyVars, uw, storeCallVars>>
    /\ pc = "reparse"
    /\ pc' = "domain"
    /\ urls' = <<>> /\ html' = None /\ obj' = NoObj /\ upres' = "none"
    /\ done' = <<>> /\ knownAtCall' = {}
    /\ UNCHANGED <<wiring, web, store, oid, known, calls, taken, ret>>

\* "robust content_hash calculation and comparison against known_hashes"
Check ==
    /\ UNCHANGED <<legacyVars, uw, storeCallVars>>
    /\ pc = "check"
    /\ IF check_block_raises(obj)
       THEN /\ pc' = "tag"
            /\ UNCHANGED <<urls, html, obj, upres, done>>
       ELSE IF check_known(obj, known).skip
       THEN NextUrl(check_known(obj, known).obj, "skipped")
       ELSE /\ obj' = check_known(obj, known).obj
            /\ pc' = "tag"
            /\ UNCHANGED <<urls, html, upres, done>>
    /\ UNCHANGED <<wiring, web, store, oid, known, calls, taken, knownAtCall, ret>>

\* a pos_tag_fn called outside any try block
pos_tag_unguarded == FALSE

\* lines 199-203: pos_tag_fn(obj) is called inside try / except Exception
pos_tag_guarded == TRUE

\* lines 199-203: the pos_tag_fn a direct caller supplied raises; the except
\* clause logs it.  (main passes pos_tag_object, which catches every
\* exception of its own, pos_tagging.py 175 and 225-227)
TagRaises ==
    /\ UNCHANGED <<legacyVars, uw, storeCallVars>>
    /\ pc = "tag" /\ wiring = "callbacks"
    /\ IF pos_tag_guarded
       THEN /\ pc' = "tagfailed"
            /\ UNCHANGED <<urls, html, obj, upres, done, knownAtCall>>
       ELSE /\ pc' = "domain"
            /\ urls' = <<>> /\ html' = None /\ obj' = NoObj /\ upres' = "none"
            /\ done' = <<>> /\ knownAtCall' = {}
    /\ UNCHANGED <<wiring, web, store, oid, known, calls, taken, ret>>

\* pos_tag_fn returns, or its failure was logged: the re-check after tagging
Tag ==
    /\ UNCHANGED <<legacyVars, uw, storeCallVars>>
    /\ pc \in {"tag", "tagfailed"}
    /\ IF recheck_skips(obj, known)
       THEN NextUrl(obj, "skipped")
       ELSE /\ pc' = "upsert"
            /\ UNCHANGED <<urls, html, obj, upres, done>>
    /\ UNCHANGED <<wiring, web, store, oid, known, calls, taken, knownAtCall, ret>>

\* upsert_article(collection, obj, input_url) on a store that accepts or
\* rejects the write: the outcomes <<result, store>>
upsert_article(st, coll, o, newId) ==
    IF empty_extract(o)
    THEN {<<"rejected", st>>}
    ELSE {<<"writefail", st>>}
         \cup
         {<<"stored", st2>> :
             st2 \in update_one_upsert(st, coll, upsert_query(o).field,
                                       upsert_query(o).val, to_dict(o), newId)}

\* the upsert callback as process_domain_generic calls it
UpsertOutcomes ==
    IF wiring = "main"
    THEN IF main_upsert_raises
         THEN {<<"raised", store>>}
         ELSE upsert_article(store, Coll, obj, DocId("oid", oid, ""))
    ELSE upsert_article(store, Coll, obj, DocId("oid", oid, ""))

\* "upsert and register new hash": the call, any exception logged
Upsert ==
    /\ UNCHANGED <<legacyVars, uw, storeCallVars>>
    /\ pc = "upsert"
    /\ \E out \in UpsertOutcomes :
        /\ upres' = out[1]
        /\ store' = out[2]
        /\ oid' = IF out[2] = store THEN oid ELSE oid + 1
    /\ pc' = "register"
    /\ UNCHANGED <<wiring, web, known, calls, taken, urls, html, obj, done,
                   knownAtCall, ret>>

\* `if obj.content_hash: known_hashes.add(obj.content_hash)`
Register ==
    /\ UNCHANGED <<legacyVars, uw, storeCallVars>>
    /\ pc = "register"
    /\ ~register_raises(obj)
    /\ known' = register_hash(obj, known, upres)
    /\ NextUrl(obj, upres)
    /\ UNCHANGED <<wiring, web, store, oid, calls, taken, knownAtCall, ret>>

\* the TypeError of known_hashes.add leaves process_domain_generic: main
\* logs "Error crawling domain" and goes on with the next domain
RegisterRaises ==
    /\ UNCHANGED <<legacyVars, uw, storeCallVars>>
    /\ pc = "register"
    /\ register_raises(obj)
    /\ pc' = "domain"
    /\ urls' = <<>> /\ html' = None /\ obj' = NoObj /\ upres' = "none"
    /\ done' = <<>> /\ knownAtCall' = {}
    /\ UNCHANGED <<wiring, web, store, oid, known, calls, taken, ret>>

\* scheduler._on_signal (scheduler.py 17-19), installed for SIGINT and SIGTERM
\* at 163-164: while the scheduled run of main is in progress the handler
\* only sets _stop; nothing in the crawl reads that flag
OnSignal ==
    /\ wiring = "main"
    /\ pc # "start"
    /\ ~stop
    /\ stop' = TRUE
    /\ UNCHANGED <<wiring, web, store, oid, known, genericVars, legacyVars, uw,
                   uidx, writes, dl, sq, om, sc, pf, sch, rt>>

\* the return value: the refresh callback's result, or known_hashes
ReturnValues ==
    IF wiring = "main"
    THEN {main_return(known, CollectionDocs(store, Coll))}
    ELSE {known,
          refresh_known_hashes_for_collection(CollectionDocs(store, Coll), FALSE, known)}

Return ==
    /\ UNCHANGED <<legacyVars, uw, storeCallVars>>
    /\ pc = "return"
    /\ ret' \in ReturnValues
    /\ pc' = "assign"
    /\ UNCHANGED <<wiring, web, store, oid, known, calls, taken, urls, html, obj,
                   upres, done, knownAtCall>>

\* main: `if updated is not None: known_hashes = updated`
Assign ==
    /\ UNCHANGED <<legacyVars, uw, storeCallVars>>
    /\ pc = "assign"
    /\ known' = ret
    /\ pc' = "domain"
    /\ done' = <<>> /\ knownAtCall' = {} /\ ret' = {}
    /\ UNCHANGED <<wiring, web, store, oid, calls, taken, urls, html, obj, upres>>

Next ==
    \/ Seed
    \/ CallerKnown
    \/ PdgCall
    \/ Fetch
    \/ Parse
    \/ ParseTypeError
    \/ Reparse
    \/ ReparseRaises
    \/ Check
    \/ TagRaises
    \/ Tag
    \/ Upsert
    \/ Register
    \/ RegisterRaises
    \/ Return
    \/ Assign
    \/ OnSignal

Spec == Init /\ [][Next]_vars

(***************************************************************************)
(* The legacy threaded main loop (scr/german_newspapaer_crawler.py): the   *)
(* main thread seeds existing_hashes, submits one _fetch_and_parse future  *)
(* per unique URL to a thread pool and handles the results as they         *)
(* complete, while the remaining futures are still running                 *)
(***************************************************************************)
Plugins == {"taz", "fallback"}
LegacyWebs == Webs \cup {[u \in URLs |-> PageA]}

\* _compute_content_hash: SHA-256 of the stripped text, else of the html
compute_content_hash(o) ==
    LET data == Strip(Or(Or(o.text, o.html), ""))
    IN  IF data # "" THEN sha256_hex(data) ELSE None

\* the ad-hoc object of _fetch_and_parse with its content_hash assigned
LegacyObj(id, h, text) ==
    LET o == [id |-> id, html |-> h, text |-> text, content_hash |-> None]
    IN  [o EXCEPT !.content_hash = compute_content_hash(o)]

\* the parameters of ObjectModel.__init__ (object_model.py 68-83); it takes
\* no **kwargs
ObjectModelParams ==
    {"_id", "url", "titel", "teaser", "autor", "category", "published_date",
     "parsed_date", "html", "text", "ai_keywords", "pos_taggs", "content_hash"}

\* the keywords of the three ObjectModel(...) calls of
\* TAZ.parse_article_to_object: known URL (292-300), parsed article (429-440),
\* except clause (452)
TazKnownKwargs ==
    {"id", "html", "text", "titel", "teaser", "parsed_date", "content_hash"}
TazParsedKwargs ==
    {"id", "html", "text", "titel", "teaser", "parsed_date", "published_date",
     "autor", "category", "content_hash"}
TazErrorKwargs ==
    {"id", "html", "text", "titel", "teaser", "parsed_date", "content_hash"}

\* a call with a keyword the callee does not declare raises TypeError
KeywordCallRaises(kwargs, params) == ~(kwargs \subseteq params)

\* TAZ.parse_article_to_object(url, html=html) with known_hashes kn: whether
\* it raises, and the object it returns otherwise
taz_parse_article_to_object(u, h, kn) ==
    LET uh == sha256_hex(u)
        minimal == [id |-> u, html |-> "", text |-> "", content_hash |-> uh]
        parsed == [id |-> u, html |-> h, text |-> Or(Strip(StripTags(h)), ""),
                   content_hash |-> uh]
        onError == [id |-> u, html |-> Or(h, ""), text |-> "", content_hash |-> uh]
        tryRaises == IF uh \in kn
                     THEN KeywordCallRaises(TazKnownKwargs, ObjectModelParams)
                     ELSE KeywordCallRaises(TazParsedKwargs, ObjectModelParams)
    IN  IF ~tryRaises
        THEN [raised |-> FALSE, obj |-> IF uh \in kn THEN minimal ELSE parsed]
        ELSE IF KeywordCallRaises(TazErrorKwargs, ObjectModelParams)
        THEN [raised |-> TRUE, obj |-> NoLegacyObj]
        ELSE [raised |-> FALSE, obj |-> onError]

\* whether the domain class's parser raises into _fetch_and_parse
plugin_parse_raises(pl, u, h, kn) ==
    pl = "taz" /\ taz_parse_article_to_object(u, h, kn).raised

\* the parse half of _fetch_and_parse, after a successful requests.get: the
\* result's status and object, content_hash reassigned at line 247 / 259
parse_result(pl, u, h, kn) ==
    IF plugin_parse_raises(pl, u, h, kn)
    THEN [status |-> "error", obj |-> LegacyObj(u, h, "")]
    ELSE IF pl = "taz"
    THEN LET o == taz_parse_article_to_object(u, h, kn).obj
         IN  [status |-> "ok", obj |-> LegacyObj(o.id, o.html, o.text)]
    ELSE [status |-> "ok", obj |-> LegacyObj(u, h, Or(Strip(StripTags(h)), ""))]

\* config_handler.collect_content_hashes_from_db: every truthy content_hash
\* of every collection; the empty set when the scan fails
config_collect_content_hashes_from_db(st, scanOk) ==
    IF scanOk
    THEN {d.content_hash : d \in {x \in st : ~Falsy(x.content_hash)}}
    ELSE {}

\* the document main writes for a result object
legacy_doc(o) ==
    [url |-> None, id |-> o.id, html |-> o.html, text |-> o.text,
     content_hash |-> o.content_hash]

\* collection.replace_one({"_id": id}, doc, upsert=True)
replace_one_upsert(st, coll, id, d) ==
    {x \in st : ~(x.coll = coll /\ x._id = id)} \cup {Document(id, coll, d)}

StoredIds(st) == {d._id : d \in st}
PoolBusy == \E u \in URLs : future[u].st \in {"queued", "fetched"}
Access(by, op) == [by |-> by, op |-> op, locked |-> lock = by, poolBusy |-> PoolBusy]

InitLegacy ==
    /\ wiring = "legacy"
    /\ web \in LegacyWebs
    /\ store = {}
    /\ oid = 1
    /\ known = {}
    /\ calls = 0
    /\ taken = 0
    /\ pc = "start"
    /\ urls = <<>>
    /\ html = None
    /\ obj = NoObj
    /\ upres = "none"
    /\ done = <<>>
    /\ knownAtCall = {}
    /\ ret = {}
    /\ plugin \in Plugins
    /\ lm = [LmIdle EXCEPT !.pc = "start", !.run = 1]
    /\ future = [u \in URLs |-> NoFuture]
    /\ seq = 0
    /\ lock = "free"
    /\ accesses = {}
    /\ uw = <<>>
    /\ StoreCallIdle

legacyFrame == <<wiring, web, oid, genericVars, plugin, lock, uw, storeCallVars>>

\* lines 148-158: existing_hashes is loaded from the store before any domain
LSeed ==
    /\ lm.pc = "start"
    /\ \E scanOk \in BOOLEAN :
        /\ known' = config_collect_content_hashes_from_db(store, scanOk)
        /\ lm' = [lm EXCEPT !.pc = "discover", !.seedOk = scanOk,
                            !.idsAtStart = StoredIds(store)]
    /\ UNCHANGED <<legacyFrame, store, future, seq, accesses>>

\* lines 185-200 and 262-264: the unique URLs of the domain, one future each
LDiscover ==
    /\ lm.pc = "discover"
    /\ \E us \in SUBSET URLs :
        /\ lm' = [lm EXCEPT !.urls = us,
                            !.pc = IF us = {} THEN "end" ELSE "loop"]
        /\ future' = [u \in URLs |->
                      IF u \in us THEN [st |-> "queued", status |-> "none", obj |-> NoLegacyObj]
                      ELSE NoFuture]
    /\ UNCHANGED <<legacyFrame, store, known, seq, accesses>>

\* lines 206-211 and 250-260, on a pool thread: requests.get comes first; a
\* failed fetch yields the empty object with html None
WFetch(u) ==
    /\ future[u].st = "queued"
    /\ future' = [future EXCEPT ![u] =
                  IF web[u] = FetchError
                  THEN [st |-> "completed", status |-> "error",
                        obj |-> LegacyObj(u, None, "")]
                  ELSE [st |-> "fetched", status |-> "none",
                        obj |-> LegacyObj(u, web[u], None)]]
    /\ UNCHANGED <<legacyFrame, store, known, seq, accesses, lm>>

\* lines 213-260, on a pool thread: the domain class parses; a class with
\* parse_article_to_object looks the URL hash up in the shared set
\* (taz.py line 290) without taking any lock
WParse(u) ==
    /\ future[u].st = "fetched"
    /\ LET r == parse_result(plugin, u, future[u].obj.html, known)
       IN  future' = [future EXCEPT ![u] =
                        [st |-> "completed", status |-> r.status, obj |-> r.obj]]
    /\ accesses' = IF plugin = "taz"
                   THEN accesses \cup {[Access("worker", "read") EXCEPT !.poolBusy = TRUE]}
                   ELSE accesses
    /\ UNCHANGED <<legacyFrame, store, known, seq, lm>>

\* line 266-270: as_completed hands the main thread any finished future
LTake ==
    /\ lm.pc = "loop"
    /\ \E u \in URLs :
        /\ future[u].st = "completed"
        /\ future' = [future EXCEPT ![u].st = "consumed"]
        /\ lm' = [lm EXCEPT !.cur = u, !.pc = "check"]
    /\ UNCHANGED <<legacyFrame, store, known, seq, accesses>>

\* lines 272-275: only the content hash of the result is looked up in
\* existing_hashes; the lookup happens on the main thread, no lock is taken
LCheck ==
    /\ lm.pc = "check"
    /\ LET o == future[lm.cur].obj
       IN  IF Falsy(o.content_hash)
           THEN /\ lm' = [lm EXCEPT !.pc = "seq"]
                /\ UNCHANGED accesses
           ELSE /\ accesses' = accesses \cup {Access("main", "read")}
                /\ lm' = [lm EXCEPT !.pc = IF o.content_hash \in known
                                           THEN "loop" ELSE "seq"]
    /\ UNCHANGED <<legacyFrame, store, known, seq, future>>

\* lines 282-293 with _get_next_sequence (96-115): the _id is the next value
\* of the collection's counter, or the object's id or URL when that fails
LSeq ==
    /\ lm.pc = "seq"
    /\ \E ok \in BOOLEAN :
        IF ok
        THEN /\ seq' = seq + 1
             /\ lm' = [lm EXCEPT !.pc = "write", !.docId = DocId("seq", seq + 1, "")]
        ELSE /\ seq' = seq
             /\ lm' = [lm EXCEPT !.pc = "write", !.storeFailed = TRUE,
                           !.docId = DocId("url", 0, Or(future[lm.cur].obj.id, lm.cur))]
    /\ UNCHANGED <<legacyFrame, store, known, future, accesses>>

\* lines 295-300: replace_one keyed by the _id; an exception is logged
LWrite ==
    /\ lm.pc = "write"
    /\ LET o == future[lm.cur].obj
       IN  \E ok \in BOOLEAN :
            IF ok
            THEN /\ store' = replace_one_upsert(store, Coll, lm.docId, legacy_doc(o))
                 /\ lm' = [lm EXCEPT !.pc = IF Falsy(o.content_hash)
                                            THEN "loop" ELSE "add"]
            ELSE /\ store' = store
                 /\ lm' = [lm EXCEPT !.pc = "loop", !.storeFailed = TRUE]
    /\ UNCHANGED <<legacyFrame, known, seq, future, accesses>>

\* lines 297-298: after the write returned, the hash joins existing_hashes;
\* the add happens on the main thread, no lock is taken
LAdd ==
    /\ lm.pc = "add"
    /\ known' = known \cup {future[lm.cur].obj.content_hash}
    /\ accesses' = accesses \cup {Access("main", "add")}
    /\ lm' = [lm EXCEPT !.pc = "loop"]
    /\ UNCHANGED <<legacyFrame, store, seq, future>>

\* lines 304-325: every future was handled; main returns
LEndPool ==
    /\ lm.pc = "loop"
    /\ \A u \in URLs : future[u].st \in {"none", "consumed"}
    /\ lm' = [lm EXCEPT !.pc = "end", !.cur = None]
    /\ UNCHANGED <<legacyFrame, store, known, seq, future, accesses>>

\* the program is started again: a new process, the same store and web
LNextRun ==
    /\ lm.pc = "end"
    /\ lm.run < MaxRuns
    /\ lm' = [lm EXCEPT !.pc = "start", !.run = lm.run + 1, !.prevUrls = lm.urls,
                        !.urls = {}, !.docId = DocId("none", 0, "")]
    /\ known' = {}
    /\ future' = [u \in URLs |-> NoFuture]
    /\ UNCHANGED <<legacyFrame, store, seq, accesses>>

NextLegacy ==
    \/ LSeed
    \/ LDiscover
    \/ \E u \in URLs : WFetch(u)
    \/ \E u \in URLs : WParse(u)
    \/ LTake
    \/ LCheck
    \/ LSeq
    \/ LWrite
    \/ LAdd
    \/ LEndPool
    \/ LNextRun

SpecLegacy == InitLegacy /\ [][NextLegacy]_vars

(***************************************************************************)
(* Concurrent callers of mongodb.upsert_article on one collection.  The    *)
(* server runs update_one(query, {"$set": doc}, upsert=True) as a lookup   *)
(* of the query followed by an update of the match or an insert; only a    *)
(* unique index on the query field makes the second of two racing inserts  *)
(* fail with DuplicateKeyError                                              *)
(***************************************************************************)
Workers == 1..MaxWorkers

\* ensure_indexes_for_collections creates idx_content_hash and idx_url
\* without unique=True, and nothing else creates an index
content_hash_index_unique == FALSE

Fingerprints == {sha256_hex(U1), Preset}

NoMatch == DocId("none", 0, "")

InitUpsert ==
    /\ wiring = "workers"
    /\ web \in {[u \in URLs |-> PageA]}
    /\ store = {}
    /\ oid = 1
    /\ known = {}
    /\ calls = 0
    /\ taken = 0
    /\ pc = "start"
    /\ urls = <<>>
    /\ html = None
    /\ obj = NoObj
    /\ upres = "none"
    /\ done = <<>>
    /\ knownAtCall = {}
    /\ ret = {}
    /\ LegacyIdle
    /\ StoreCallIdle
    /\ \E fp \in Fingerprints :
        uw \in [Workers -> {[pc |-> "call", match |-> NoMatch, res |-> "none",
                             obj |-> ObjectModel(u, PageA, Strip(StripTags(PageA)), fp)]
                            : u \in URLs}]

upsertFrame == <<wiring, web, known, genericVars, legacyVars, storeCallVars>>

\* lines 272-295: the document is prepared, an empty extract is refused,
\* the query key is selected
UPrepare(w) ==
    /\ uw[w].pc = "call"
    /\ uw' = [uw EXCEPT ![w] =
                IF empty_extract(uw[w].obj)
                THEN [@ EXCEPT !.pc = "done", !.res = "rejected"]
                ELSE [@ EXCEPT !.pc = "query"]]
    /\ UNCHANGED <<upsertFrame, store, oid>>

\* line 298, first half: the server looks the query up
UMatch(w) ==
    /\ uw[w].pc = "query"
    /\ LET q == upsert_query(uw[w].obj)
           ms == Matching(store, Coll, q.field, q.val)
       IN  \E m \in (IF ms = {} THEN {NoMatch} ELSE {d._id : d \in ms}) :
              uw' = [uw EXCEPT ![w] = [@ EXCEPT !.pc = "write", !.match = m]]
    /\ UNCHANGED <<upsertFrame, store, oid>>

\* line 298, second half, and lines 300-317: the match is updated, or a new
\* document is inserted; a failing write makes upsert_article return False
UWrite(w) ==
    /\ uw[w].pc = "write"
    /\ LET o == uw[w].obj
           q == upsert_query(o)
           clash == content_hash_index_unique
                    /\ Matching(store, Coll, q.field, q.val) # {}
       IN  \E ok \in BOOLEAN :
            IF ~ok \/ (uw[w].match = NoMatch /\ clash)
            THEN /\ uw' = [uw EXCEPT ![w] = [@ EXCEPT !.pc = "done", !.res = "writefail"]]
                 /\ UNCHANGED <<store, oid>>
            ELSE IF uw[w].match = NoMatch
            THEN /\ store' = store \cup {Document(DocId("oid", oid, ""), Coll, to_dict(o))}
                 /\ oid' = oid + 1
                 /\ uw' = [uw EXCEPT ![w] = [@ EXCEPT !.pc = "done", !.res = "stored"]]
            ELSE /\ store' = {d \in store : d._id # uw[w].match}
                                \cup {Document(uw[w].match, Coll, to_dict(o))}
                 /\ oid' = oid
                 /\ uw' = [uw EXCEPT ![w] = [@ EXCEPT !.pc = "done", !.res = "stored"]]
    /\ UNCHANGED upsertFrame

NextUpsert ==
    \/ \E w \in Workers : UPrepare(w)
    \/ \E w \in Workers : UMatch(w)
    \/ \E w \in Workers : UWrite(w)

SpecUpsert == InitUpsert /\ [][NextUpsert]_vars

(***************************************************************************)
(* One call of mongodb.upsert_article(collection, obj, input_url) on a     *)
(* collection that may carry a unique index: key selection, the primary    *)
(* update_one, the DuplicateKeyError retry                                 *)
(***************************************************************************)
NonHttpUrl == "ftp://x.test/1"

\* the articles handed to upsert_article: what the ObjectModel constructor
\* makes of a url, an html, a text and a content_hash argument
Articles ==
    {ObjectModel(u, h, t, c) : u \in {U1, NonHttpUrl, None}, h \in {None, PageA},
                               t \in {None, " ", "A"}, c \in {None, "", Preset}}

StoredPreset ==
    Document(DocId("oid", 0, ""), Coll, to_dict(ObjectModel(U2, PageB, "B", Preset)))
StoredNoHash ==
    Document(DocId("oid", 0, ""), Coll, to_dict(ObjectModel(U2, PageB, "B", "")))
StoreStates == {{}, {StoredU1}, {StoredPreset}, {StoredNoHash}}
UniqueIndexSets == {{}, {"content_hash"}, {"url"}}

DocField(x, f) == IF f = "content_hash" THEN x.content_hash ELSE x.url

\* a unique index refuses a document whose indexed value another document
\* of the collection already has
UniqueClash(st, coll, uq, id, d) ==
    \E f \in uq : \E x \in CollectionDocs(st, coll) :
        x._id # id /\ DocField(x, f) = DocField(d, f)

\* collection.update_one(query, {"$set": doc}, upsert=True) under unique
\* indexes uq: "ok" with the new store, or "dup" (DuplicateKeyError)
update_one_unique(st, coll, q, d, newId, uq) ==
    LET ms == Matching(st, coll, q.field, q.val)
    IN  IF ms = {}
        THEN IF UniqueClash(st, coll, uq, newId, d)
             THEN {<<"dup", st>>}
             ELSE {<<"ok", st \cup {Document(newId, coll, d)}>>}
        ELSE {IF UniqueClash(st, coll, uq, m._id, d)
              THEN <<"dup", st>>
              ELSE <<"ok", (st \ {m}) \cup {Document(m._id, coll, d)}>> : m \in ms}

\* lines 294-295 and 304-305: an ObjectModel has no attribute id, so
\* getattr(obj, "id", getattr(obj, "url", input_url)) is obj.url
fallback_query(o) == [field |-> "url", val |-> o.url]

InitStore ==
    /\ wiring = "store"
    /\ web \in {[u \in URLs |-> PageA]}
    /\ store \in StoreStates
    /\ oid = 1
    /\ known = {}
    /\ calls = 0
    /\ taken = 0
    /\ pc = "call"
    /\ urls = <<>>
    /\ html = None
    /\ obj \in Articles
    /\ upres = "none"
    /\ done = <<>>
    /\ knownAtCall = {}
    /\ ret = {}
    /\ LegacyIdle
    /\ uw = <<>>
    /\ uidx \in UniqueIndexSets
    /\ writes = <<>>
    /\ dl = DlIdle
    /\ stop = FALSE
    /\ sq = SqIdle
    /\ om = OmIdle
    /\ sc = ScIdle
    /\ pf = PfIdle
    /\ sch = SchIdle
    /\ rt = RtIdle

storeFrame == <<wiring, web, known, calls, taken, urls, html, obj, done,
                knownAtCall, ret, legacyVars, uw, uidx, dl, stop, sq,
                om, sc, pf, sch, rt>>

\* lines 272-295: the document is prepared; an empty extract returns False;
\* otherwise the query key is selected
SPrepare ==
    /\ wiring = "store"
    /\ pc = "call"
    /\ IF empty_extract(obj)
       THEN pc' = "done" /\ upres' = "rejected"
       ELSE pc' = "primary" /\ upres' = upres
    /\ UNCHANGED <<storeFrame, store, oid, writes>>

\* except clauses that retry after every exception of the primary write
primary_except_retry_all(kind) == "retry"

\* lines 301 and 312-317: where the except clauses of the primary write
\* lead: DuplicateKeyError ("dup") to the retry, WriteError and any other
\* exception ("error") to `return False`
primary_except(kind) == IF kind = "dup" THEN "retry" ELSE "done"

\* lines 297-300 and 312-317: the primary update_one; True on success, False
\* on WriteError or any other exception; DuplicateKeyError leads to the retry
SPrimary ==
    /\ wiring = "store"
    /\ pc = "primary"
    /\ LET q == upsert_query(obj)
       IN  /\ writes' = Append(writes, q)
           /\ \/ \E out \in update_one_unique(store, Coll, q, to_dict(obj),
                                              DocId("oid", oid, ""), uidx) :
                    IF out[1] = "ok"
                    THEN /\ store' = out[2]
                         /\ pc' = "done"
                         /\ upres' = "stored"
                    ELSE /\ store' = store
                         /\ pc' = primary_except("dup")
                         /\ upres' = IF pc' = "done" THEN "writefail" ELSE upres
              \/ /\ store' = store
                 /\ pc' = primary_except("error")
                 /\ upres' = IF pc' = "done" THEN "writefail" ELSE upres
    /\ oid' = IF store' # store THEN oid + 1 ELSE oid
    /\ UNCHANGED storeFrame

\* lines 301-311: the retry after DuplicateKeyError, keyed by the URL; True
\* on success, False on any exception
SRetry ==
    /\ wiring = "store"
    /\ pc = "retry"
    /\ LET q == fallback_query(obj)
       IN  /\ writes' = Append(writes, q)
           /\ \/ \E out \in update_one_unique(store, Coll, q, to_dict(obj),
                                              DocId("oid", oid, ""), uidx) :
                    IF out[1] = "ok"
                    THEN store' = out[2] /\ upres' = "stored"
                    ELSE store' = store /\ upres' = "writefail"
              \/ store' = store /\ upres' = "writefail"
    /\ pc' = "done"
    /\ oid' = IF store' # store THEN oid + 1 ELSE oid
    /\ UNCHANGED storeFrame

NextStore ==
    \/ SPrepare
    \/ SPrimary
    \/ SRetry

SpecStore == InitStore /\ [][NextStore]_vars

(***************************************************************************)
(* The domain loops of the two mains: which failures of one domain are     *)
(* handled inside the iteration and which end the run                      *)
(***************************************************************************)
\* what goes wrong while a domain is processed: nothing, the import of its
\* module or class, the discovery of its URLs, the resolution of its
\* collection, an exception out of its article pipeline
FailureKinds == {"none", "import", "discovery", "collection", "pipeline"}
DomainLists == UNION {[1..n -> FailureKinds] : n \in 1..MaxDomains}

InitDomains ==
    /\ wiring = "domains"
    /\ web \in {[u \in URLs |-> PageA]}
    /\ store = {}
    /\ oid = 1
    /\ known = {}
    /\ calls = 0
    /\ taken = 0
    /\ pc = "start"
    /\ urls = <<>>
    /\ html = None
    /\ obj = NoObj
    /\ upres = "none"
    /\ done = <<>>
    /\ knownAtCall = {}
    /\ ret = {}
    /\ LegacyIdle
    /\ uw = <<>>
    /\ uidx = {}
    /\ writes = <<>>
    /\ \E prog \in {"new", "legacy"}, cfg \in DomainLists :
        dl = [DlIdle EXCEPT !.prog = prog, !.cfg = cfg]
    /\ stop = FALSE
    /\ sq = SqIdle
    /\ om = OmIdle
    /\ sc = ScIdle
    /\ pf = PfIdle
    /\ sch = SchIdle
    /\ rt = RtIdle

domainsFrame == <<wiring, web, store, oid, known, genericVars, legacyVars, uw,
                  uidx, writes, stop, sq, om, sc, pf, sch, rt>>

\* german_newspaper_crawler.main lines 76-115, one iteration: the whole body
\* is inside try/except Exception; build_article_urls returns [] when the
\* import or the discovery fails (web_requests.py 267-305), an exception of
\* _resolve_collection or of the pipeline leaves process_domain_generic and
\* is logged at 114-115
NewMainDomain ==
    /\ dl.prog = "new"
    /\ ~dl.finished
    /\ dl.i <= Len(dl.cfg)
    /\ dl' = [dl EXCEPT !.i = dl.i + 1,
                        !.visited = dl.visited \cup {dl.i},
                        !.crawled = IF dl.cfg[dl.i] \in {"collection", "pipeline"}
                                    THEN dl.crawled
                                    ELSE dl.crawled \cup {dl.i}]
    /\ UNCHANGED domainsFrame

\* german_newspapaer_crawler.main lines 164-317, one iteration: _load_class
\* (173-177) and fetch_article_urls (187-198) are guarded, _fetch_and_parse
\* catches its own exceptions (250); the collection lookup
\* mongo_db[collection_name] (180-183) is not inside any handler of the
\* loop, its exception reaches `except Exception` at 327 and main returns 1
LegacyMainDomain ==
    /\ dl.prog = "legacy"
    /\ ~dl.finished
    /\ dl.i <= Len(dl.cfg)
    /\ dl' = IF dl.cfg[dl.i] = "collection"
             THEN [dl EXCEPT !.visited = dl.visited \cup {dl.i},
                             !.finished = TRUE, !.rc = 1]
             ELSE [dl EXCEPT !.i = dl.i + 1,
                             !.visited = dl.visited \cup {dl.i},
                             !.crawled = IF dl.cfg[dl.i] = "import"
                                         THEN dl.crawled
                                         ELSE dl.crawled \cup {dl.i}]
    /\ UNCHANGED domainsFrame

\* the loop is exhausted: main returns
MainReturn ==
    /\ dl.prog # "none"
    /\ ~dl.finished
    /\ dl.i > Len(dl.cfg)
    /\ dl' = [dl EXCEPT !.finished = TRUE]
    /\ UNCHANGED domainsFrame

NextDomains ==
    \/ NewMainDomain
    \/ LegacyMainDomain
    \/ MainReturn

SpecDomains == InitDomains /\ [][NextDomains]_vars

(***************************************************************************)
(* Concurrent callers of _get_next_sequence on one counter name.  The      *)
(* counter is one document of __counters__; find_one_and_update with $inc  *)
(* is one atomic read-modify-write of that document at the server, and     *)
(* with upsert=True a missing document counts as seq 0                     *)
(***************************************************************************)
StartValues == 0..MaxStart

\* lines 105-110 with ReturnDocument.BEFORE instead of AFTER
find_one_and_update_before(c) == [seq |-> c + 1, ret |-> c]

\* lines 105-112: {"$inc": {"seq": 1}}, upsert=True, ReturnDocument.AFTER,
\* then int(res["seq"])
find_one_and_update(c) == [seq |-> c + 1, ret |-> c + 1]

InitSeq ==
    /\ wiring = "sequence"
    /\ web \in {[u \in URLs |-> PageA]}
    /\ store = {}
    /\ oid = 1
    /\ known = {}
    /\ calls = 0
    /\ taken = 0
    /\ pc = "start"
    /\ urls = <<>>
    /\ html = None
    /\ obj = NoObj
    /\ upres = "none"
    /\ done = <<>>
    /\ knownAtCall = {}
    /\ ret = {}
    /\ LegacyIdle
    /\ uw = <<>>
    /\ uidx = {}
    /\ writes = <<>>
    /\ dl = DlIdle
    /\ stop = FALSE
    /\ \E s \in StartValues :
        sq = [start |-> s, seq |-> s, rets |-> [w \in Workers |-> <<>>],
              fails |-> 0]
    /\ om = OmIdle
    /\ sc = ScIdle
    /\ pf = PfIdle
    /\ sch = SchIdle
    /\ rt = RtIdle

seqFrame == <<wiring, web, store, oid, known, genericVars, legacyVars, uw,
              uidx, writes, dl, stop, om, sc, pf, sch, rt>>

\* _get_next_sequence lines 96-112, the store answering: the new value is
\* returned to the caller
GetNextSequence(w) ==
    /\ wiring = "sequence"
    /\ Len(sq.rets[w]) < MaxSeqCalls
    /\ LET r == find_one_and_update(sq.seq)
       IN  sq' = [sq EXCEPT !.seq = r.seq,
                            !.rets[w] = Append(sq.rets[w], r.ret)]
    /\ UNCHANGED seqFrame

\* lines 101-102 and 113-115: no database handle, or the store call raises:
\* None is returned and the counter is left alone
GetNextSequenceFails(w) ==
    /\ wiring = "sequence"
    /\ sq.fails < MaxSeqFails
    /\ sq' = [sq EXCEPT !.fails = sq.fails + 1]
    /\ UNCHANGED seqFrame

NextSeq ==
    \/ \E w \in Workers : GetNextSequence(w)
    \/ \E w \in Workers : GetNextSequenceFails(w)

SpecSeq == InitSeq /\ [][NextSeq]_vars

(***************************************************************************)
(* object_model: threads that each build one ObjectModel, by the           *)
(* constructor or by from_dict, sharing the module's _next_internal_id.    *)
(* The two functions that touch the counter hold _next_internal_id_lock    *)
(* for their whole body, so each is one step; what lies between two of     *)
(* them in one thread can interleave with the other threads                *)
(***************************************************************************)
Constructions == 1..MaxConstructions
IdArgs == {NoneId} \cup 0..MaxId

\* the (url, html, text, content_hash) arguments of a construction
ContentArgs ==
    {<<U1, PageA, "A", None>>, <<None, PageA, " ", None>>,
     <<None, None, "A", None>>, <<None, None, None, None>>,
     <<None, PageA, "A", Preset>>}

\* the dicts given to from_dict: _id and id as _maybe_parse_int reads them
\* (NoneId for a missing or non-numeric value), and the content fields
DictArgs ==
    {[_id |-> i, id |-> j, url |-> c[1], html |-> c[2], text |-> c[3], ch |-> c[4]] :
        i \in IdArgs, j \in IdArgs,
        c \in {<<U1, PageA, "A", None>>, <<None, None, "A", None>>}}

IdleThread ==
    [pc |-> "idle", _id |-> NoneId, max_seen |-> NoneId, url |-> None,
     html |-> None, text |-> None, ch |-> None]

\* _ensure_next_internal_id_at_least leaving the counter at min_exclusive
ensure_next_internal_id_inclusive(n, min_exclusive) ==
    IF n <= min_exclusive THEN min_exclusive ELSE n

\* _ensure_next_internal_id_at_least: the counter after the call
ensure_next_internal_id_at_least(n, min_exclusive) ==
    IF n <= min_exclusive THEN min_exclusive + 1 ELSE n

\* from_dict lines 310-315: the larger of the two ids that are present
max_seen(existing_internal, existing_id_numeric) ==
    LET m == IF existing_internal # NoneId THEN existing_internal ELSE NoneId
    IN  IF existing_id_numeric # NoneId /\ (m = NoneId \/ existing_id_numeric > m)
        THEN existing_id_numeric
        ELSE m

InitObjects ==
    /\ wiring = "objects"
    /\ web \in {[u \in URLs |-> PageA]}
    /\ store = {}
    /\ oid = 1
    /\ known = {}
    /\ calls = 0
    /\ taken = 0
    /\ pc = "start"
    /\ urls = <<>>
    /\ html = None
    /\ obj = NoObj
    /\ upres = "none"
    /\ done = <<>>
    /\ knownAtCall = {}
    /\ ret = {}
    /\ LegacyIdle
    /\ uw = <<>>
    /\ uidx = {}
    /\ writes = <<>>
    /\ dl = DlIdle
    /\ stop = FALSE
    /\ sq = SqIdle
    /\ om = [OmIdle EXCEPT !.th = [t \in Constructions |-> IdleThread]]
    /\ sc = ScIdle
    /\ pf = PfIdle
    /\ sch = SchIdle
    /\ rt = RtIdle

objectsFrame == <<wiring, web, store, oid, known, genericVars, legacyVars, uw,
                  uidx, writes, dl, stop, sq, sc, pf, sch, rt>>

\* ObjectModel.__init__ lines 68-117: the arguments are stored on the new
\* instance; __post_init__ is still to run
Construct(t) ==
    /\ wiring = "objects"
    /\ om.th[t].pc = "idle"
    /\ \E i \in IdArgs, c \in ContentArgs :
        om' = [om EXCEPT !.th[t] =
                 [IdleThread EXCEPT !.pc = "post", !._id = i, !.url = c[1],
                                    !.html = c[2], !.text = c[3], !.ch = c[4]]]
    /\ UNCHANGED objectsFrame

\* from_dict lines 301-315 and 335-337: the ids are read from the dict and
\* the url falls back to an http(s) id
FromDict(t) ==
    /\ wiring = "objects"
    /\ om.th[t].pc = "idle"
    /\ \E d \in DictArgs :
        LET m == max_seen(d._id, d.id)
        IN  om' = [om EXCEPT !.th[t] =
                     [pc |-> IF m # NoneId THEN "ensure" ELSE "post",
                      _id |-> d._id, max_seen |-> m, url |-> d.url,
                      html |-> d.html, text |-> d.text, ch |-> d.ch]]
    /\ UNCHANGED objectsFrame

\* from_dict lines 316-317: the counter is moved past the largest id seen
FromDictEnsure(t) ==
    /\ wiring = "objects"
    /\ om.th[t].pc = "ensure"
    /\ om' = [om EXCEPT
                !.next = ensure_next_internal_id_at_least(om.next, om.th[t].max_seen),
                !.seen = IF om.th[t].max_seen > om.seen THEN om.th[t].max_seen
                         ELSE om.seen,
                !.th[t].pc = "post"]
    /\ UNCHANGED objectsFrame

\* __post_init__ lines 189-214: an instance without _id takes the counter's
\* value (_get_next_internal_id), one with an _id moves the counter past it;
\* then the content_hash fallback.  `seen` is the largest id given out or
\* passed to _ensure_next_internal_id_at_least so far; each instance keeps
\* its value at the time of the id step in `floor`
PostInit(t) ==
    /\ wiring = "objects"
    /\ om.th[t].pc = "post"
    /\ LET a == om.th[t]
           auto == a._id = NoneId
           id == IF auto THEN om.next ELSE a._id
           inst == [_id |-> id, auto |-> auto, floor |-> om.seen,
                    url |-> a.url, html |-> a.html, text |-> a.text,
                    preset |-> a.ch # None,
                    content_hash |-> ObjectModel(a.url, a.html, a.text, a.ch).content_hash]
       IN  om' = [om EXCEPT
                    !.next = IF auto THEN om.next + 1
                             ELSE ensure_next_internal_id_at_least(om.next, a._id),
                    !.seen = IF id > om.seen THEN id ELSE om.seen,
                    !.objs = Append(om.objs, inst),
                    !.th[t].pc = "done"]
    /\ UNCHANGED objectsFrame

NextObjects ==
    \/ \E t \in Constructions : Construct(t)
    \/ \E t \in Constructions : FromDict(t)
    \/ \E t \in Constructions : FromDictEnsure(t)
    \/ \E t \in Constructions : PostInit(t)

SpecObjects == InitObjects /\ [][NextObjects]_vars

(***************************************************************************)
(* collect_content_hashes_from_db, in lib.common.mongodb and in            *)
(* lib.common.config_handler: the collections are listed and scanned one   *)
(* after the other; reading a collection may fail when it is opened or     *)
(* while its cursor is iterated                                            *)
(***************************************************************************)
CollNames == <<Coll, "faz", "sz", "zeit">>
Collections == {CollNames[n] : n \in 1..MaxCollections}

\* the documents the database may hold: one article with a fingerprint per
\* collection, one article without a fingerprint, and one placeholder: a
\* URL-only document whose html and text are empty
HashedDoc(c) ==
    Document(DocId("seq", 1, ""), c, to_dict(ObjectModel(None, PageA, "A", sha256_hex(c))))
Placeholder ==
    Document(DocId("seq", 2, ""), Coll, to_dict(ObjectModel(U1, "", "", None)))
ScanDocs == {HashedDoc(c) : c \in Collections} \cup {StoredNoHash, Placeholder}

\* list_collection_names() returns the names in an order of the server's
ScanOrders ==
    {o \in [1..MaxCollections -> Collections] :
        \A a, b \in 1..MaxCollections : a # b => o[a] # o[b]}

\* how reading a collection ends: "ok", "open" (db[name] or find raises),
\* "mid" (the cursor raises after some documents)
ReadModes == {"ok", "open", "mid"}

\* what one variant adds for the documents it got to see
hashes_of(fn, docs) ==
    IF fn = "mongodb"
    THEN collect_content_hashes_from_db(docs)
    ELSE config_collect_content_hashes_from_db(docs, TRUE)

\* the loop body had a failure emptied the set collected so far
scan_collection_resetting(fn, hs, docs, mode) ==
    IF mode = "ok" THEN {hs \cup hashes_of(fn, docs)} ELSE {{}}

\* the body of `for coll_name in coll_names` (mongodb.py 99-132,
\* config_handler.py 103-113): the possible sets of hashes after it
scan_collection(fn, hs, docs, mode) ==
    IF mode = "ok"
    THEN {hs \cup hashes_of(fn, docs)}
    ELSE IF mode = "open"
    THEN {hs}
    ELSE {hs \cup hashes_of(fn, part) : part \in SUBSET docs}

InitScan ==
    /\ wiring = "scan"
    /\ web \in {[u \in URLs |-> PageA]}
    /\ store \in SUBSET ScanDocs
    /\ oid = 1
    /\ known = {}
    /\ calls = 0
    /\ taken = 0
    /\ pc = "start"
    /\ urls = <<>>
    /\ html = None
    /\ obj = NoObj
    /\ upres = "none"
    /\ done = <<>>
    /\ knownAtCall = {}
    /\ ret = {}
    /\ LegacyIdle
    /\ uw = <<>>
    /\ uidx = {}
    /\ writes = <<>>
    /\ dl = DlIdle
    /\ stop = FALSE
    /\ sq = SqIdle
    /\ om = OmIdle
    /\ \E fn \in {"mongodb", "config"}, o \in ScanOrders,
          m \in [Collections -> ReadModes] :
        sc = [ScIdle EXCEPT !.fn = fn, !.pc = "list", !.names = o,
                            !.mode = [n \in 1..MaxCollections |-> m[o[n]]]]
    /\ pf = PfIdle
    /\ sch = SchIdle
    /\ rt = RtIdle

scanFrame == <<wiring, web, store, oid, known, genericVars, legacyVars, uw,
               uidx, writes, dl, stop, sq, om, pf, sch, rt>>

\* mongodb.py 85-97, config_handler.py 96-102 and 114-115: without a
\* database, or when list_collection_names raises, the empty set is returned
ScanList ==
    /\ wiring = "scan"
    /\ sc.pc = "list"
    /\ \/ sc' = [sc EXCEPT !.pc = "scan"]
       \/ sc' = [sc EXCEPT !.pc = "failed"]
    /\ UNCHANGED scanFrame

\* one round of the loop over the collection names
ScanCollection ==
    /\ wiring = "scan"
    /\ sc.pc = "scan"
    /\ sc.i <= Len(sc.names)
    /\ \E r \in scan_collection(sc.fn, sc.hashes,
                                CollectionDocs(store, sc.names[sc.i]), sc.mode[sc.i]) :
        sc' = [sc EXCEPT !.hashes = r, !.i = sc.i + 1]
    /\ UNCHANGED scanFrame

\* mongodb.py 134-136, config_handler.py 116: the set is returned
ScanReturn ==
    /\ wiring = "scan"
    /\ sc.pc = "scan"
    /\ sc.i > Len(sc.names)
    /\ sc' = [sc EXCEPT !.pc = "returned"]
    /\ UNCHANGED scanFrame

NextScan ==
    \/ ScanList
    \/ ScanCollection
    \/ ScanReturn

SpecScan == InitScan /\ [][NextScan]_vars

(***************************************************************************)
(* parallel_fetcher.download_urls: one _download_single future per entry   *)
(* of the URL list on a pool of max_workers threads; the caller's thread   *)
(* collects the results as the futures complete                            *)
(***************************************************************************)
DownloadLists == UNION {[1..n -> URLs] : n \in 1..MaxDownloads}

\* what the network and the disk do to a download: it succeeds, the request
\* times out or answers with an error status (requests.RequestException),
\* or writing the temporary file or moving it fails (OSError)
NetOutcomes == {"ok", "timeout", "httperror", "writeerror", "moveerror"}

NoResult ==
    [idx |-> 0, url |-> None, success |-> FALSE, error |-> None, skipped |-> FALSE]

\* a _download_single that does not look into known_hashes
download_single_no_skip(idx, url, outcome, shared, kn) ==
    IF outcome = "ok"
    THEN [idx |-> idx, url |-> url, success |-> TRUE, error |-> None, skipped |-> FALSE]
    ELSE [idx |-> idx, url |-> url, success |-> FALSE, error |-> outcome,
          skipped |-> FALSE]

\* a _download_single that marks the result successful before the request
download_single_optimistic(idx, url, outcome, shared, kn) ==
    IF shared /\ sha256_hex(url) \in kn
    THEN [idx |-> idx, url |-> url, success |-> TRUE, error |-> None, skipped |-> TRUE]
    ELSE [idx |-> idx, url |-> url, success |-> TRUE,
          error |-> IF outcome = "ok" THEN None ELSE outcome, skipped |-> FALSE]

\* _download_single lines 81-195: the result dict for the entry at position
\* idx of the list (the position is kept with the result to tell the
\* results of equal URLs apart); `shared` says whether a known_hashes set
\* was passed
download_single(idx, url, outcome, shared, kn) ==
    IF shared /\ sha256_hex(url) \in kn
    THEN [idx |-> idx, url |-> url, success |-> TRUE, error |-> None, skipped |-> TRUE]
    ELSE IF outcome = "ok"
    THEN [idx |-> idx, url |-> url, success |-> TRUE, error |-> None, skipped |-> FALSE]
    ELSE [idx |-> idx, url |-> url, success |-> FALSE, error |-> outcome,
          skipped |-> FALSE]

InitDownload ==
    /\ wiring = "download"
    /\ web \in {[u \in URLs |-> PageA]}
    /\ store = {}
    /\ oid = 1
    /\ known = {}
    /\ calls = 0
    /\ taken = 0
    /\ pc = "start"
    /\ urls = <<>>
    /\ html = None
    /\ obj = NoObj
    /\ upres = "none"
    /\ done = <<>>
    /\ knownAtCall = {}
    /\ ret = {}
    /\ LegacyIdle
    /\ uw = <<>>
    /\ uidx = {}
    /\ writes = <<>>
    /\ dl = DlIdle
    /\ stop = FALSE
    /\ sq = SqIdle
    /\ om = OmIdle
    /\ sc = ScIdle
    /\ \E us \in DownloadLists, w \in 1..2, sh \in BOOLEAN :
        \E net \in [1..Len(us) -> NetOutcomes] :
            pf = [pc |-> "submit", urls |-> us, net |-> net, max_workers |-> w,
                  shared |-> sh, known |-> {},
                  submits |-> [i \in 1..Len(us) |-> 0],
                  fut |-> [i \in 1..Len(us) |-> "none"],
                  res |-> [i \in 1..Len(us) |-> NoResult],
                  results |-> <<>>,
                  requests |-> [i \in 1..Len(us) |-> 0],
                  tmp |-> {}, final |-> {}]
    /\ sch = SchIdle
    /\ rt = RtIdle

downloadFrame == <<wiring, web, store, oid, known, genericVars, legacyVars, uw,
                   uidx, writes, dl, stop, sq, om, sc, sch, rt>>

\* lines 221-224: the entries are submitted in list order
Submit ==
    /\ wiring = "download"
    /\ pf.pc = "submit"
    /\ LET i == CHOOSE k \in 1..Len(pf.urls) :
                    pf.fut[k] = "none" /\ \A j \in 1..(k - 1) : pf.fut[j] # "none"
       IN  pf' = [pf EXCEPT !.fut[i] = "queued",
                            !.submits[i] = pf.submits[i] + 1,
                            !.pc = IF i = Len(pf.urls) THEN "collect" ELSE "submit"]
    /\ UNCHANGED downloadFrame

\* a finally clause that leaves the temporary file where it is
cleanup_tmp_keeps(tmp, i) == tmp

\* lines 169-174: the finally clause removes the temporary file when it is
\* still present
cleanup_tmp(tmp, i) == tmp \ {i}

\* _compute_file_sha256 of the downloaded body
file_sha256(url) == sha256_hex(web[url])

\* the futures a pool thread is working on
InFlight == {"running", "writing", "written", "moved"}

\* a free pool thread takes a queued future: _download_single lines 84-98,
\* the known-URL test under the lock and the request being sent
DownloadStart(i) ==
    /\ wiring = "download"
    /\ i <= Len(pf.urls)
    /\ pf.fut[i] = "queued"
    /\ Cardinality({k \in 1..Len(pf.urls) : pf.fut[k] \in InFlight}) < pf.max_workers
    /\ LET r == download_single(i, pf.urls[i], pf.net[i], pf.shared, pf.known)
       IN  pf' = IF r.skipped
                 THEN [pf EXCEPT !.fut[i] = "finished", !.res[i] = r]
                 ELSE [pf EXCEPT !.fut[i] = "running",
                                 !.requests[i] = pf.requests[i] + 1]
    /\ UNCHANGED downloadFrame

\* lines 98-99 and 127-130: the request fails or raise_for_status raises
\* (the except clause at 182-184 fills the error), or the response arrives
\* and mkstemp creates the temporary file in dest_dir
DownloadResponse(i) ==
    /\ wiring = "download"
    /\ i <= Len(pf.urls)
    /\ pf.fut[i] = "running"
    /\ pf' = IF pf.net[i] \in {"timeout", "httperror"}
             THEN [pf EXCEPT !.fut[i] = "finished",
                             !.res[i] = download_single(i, pf.urls[i], pf.net[i], FALSE, {})]
             ELSE [pf EXCEPT !.fut[i] = "writing", !.tmp = pf.tmp \cup {i}]
    /\ UNCHANGED downloadFrame

\* lines 131-144 and 169-187: the chunks are written and hashed; when that
\* raises, the finally clause removes the temporary file
DownloadWrite(i) ==
    /\ wiring = "download"
    /\ i <= Len(pf.urls)
    /\ pf.fut[i] = "writing"
    /\ pf' = IF pf.net[i] = "writeerror"
             THEN [pf EXCEPT !.fut[i] = "finished", !.tmp = cleanup_tmp(pf.tmp, i),
                             !.res[i] = download_single(i, pf.urls[i], pf.net[i], FALSE, {})]
             ELSE [pf EXCEPT !.fut[i] = "written"]
    /\ UNCHANGED downloadFrame

\* lines 146-158 and 169-187: shutil.move takes the temporary file to its
\* final path; when it raises, the finally clause removes the temporary file
DownloadMove(i) ==
    /\ wiring = "download"
    /\ i <= Len(pf.urls)
    /\ pf.fut[i] = "written"
    /\ pf' = IF pf.net[i] = "moveerror"
             THEN [pf EXCEPT !.fut[i] = "finished", !.tmp = cleanup_tmp(pf.tmp, i),
                             !.res[i] = download_single(i, pf.urls[i], pf.net[i], FALSE, {})]
             ELSE [pf EXCEPT !.fut[i] = "moved", !.tmp = pf.tmp \ {i},
                             !.final = pf.final \cup {i}]
    /\ UNCHANGED downloadFrame

\* lines 160-168: after the move the hashes are added to known_hashes under
\* the lock and the result is returned
DownloadEnd(i) ==
    /\ wiring = "download"
    /\ i <= Len(pf.urls)
    /\ pf.fut[i] = "moved"
    /\ LET r == download_single(i, pf.urls[i], pf.net[i], FALSE, {})
       IN  pf' = [pf EXCEPT !.fut[i] = "finished", !.res[i] = r,
                            !.known = IF pf.shared
                                      THEN pf.known \cup {sha256_hex(pf.urls[i]),
                                                           file_sha256(pf.urls[i])}
                                      ELSE pf.known]
    /\ UNCHANGED downloadFrame

\* lines 227-235: as_completed hands over a finished future, its result is
\* appended
Collect(i) ==
    /\ wiring = "download"
    /\ pf.pc = "collect"
    /\ i <= Len(pf.urls)
    /\ pf.fut[i] = "finished"
    /\ pf' = [pf EXCEPT !.fut[i] = "collected",
                        !.results = Append(pf.results, pf.res[i])]
    /\ UNCHANGED downloadFrame

\* line 249: every future was handed over
DownloadReturn ==
    /\ wiring = "download"
    /\ pf.pc = "collect"
    /\ \A i \in 1..Len(pf.urls) : pf.fut[i] = "collected"
    /\ pf' = [pf EXCEPT !.pc = "returned"]
    /\ UNCHANGED downloadFrame

NextDownload ==
    \/ Submit
    \/ \E i \in 1..MaxDownloads : DownloadStart(i)
    \/ \E i \in 1..MaxDownloads : DownloadResponse(i)
    \/ \E i \in 1..MaxDownloads : DownloadWrite(i)
    \/ \E i \in 1..MaxDownloads : DownloadMove(i)
    \/ \E i \in 1..MaxDownloads : DownloadEnd(i)
    \/ \E i \in 1..MaxDownloads : Collect(i)
    \/ DownloadReturn

SpecDownload == InitDownload /\ [][NextDownload]_vars

(***************************************************************************)
(* scheduler.main: the initial run, then, with scheduling enabled, the     *)
(* daily loop of wait and run; SIGINT and SIGTERM may arrive at any point  *)
(***************************************************************************)
\* how a _run_crawler call can go: crawler main returns, crawler main raises
\* an Exception, or no crawler module is found
RunOutcomes == {"ok", "raises", "nomodule"}

Signals == {"SIGINT", "SIGTERM"}

\* a _run_crawler without the try/except around the run
run_crawler_propagates(outcome) == IF outcome = "raises" THEN "raised" ELSE "returned"

\* _run_crawler lines 84-105: what the caller sees of the call; an Exception
\* of crawler main is logged at 104-105 and not passed on
run_crawler(outcome) == "returned"

\* a process without the handlers, for which SIGINT and SIGTERM keep their
\* default dispositions: KeyboardInterrupt in the main thread, termination
default_disposition(sig) == IF sig = "SIGINT" THEN "interrupted" ELSE "killed"

InitScheduler ==
    /\ wiring = "scheduler"
    /\ web \in {[u \in URLs |-> PageA]}
    /\ store = {}
    /\ oid = 1
    /\ known = {}
    /\ calls = 0
    /\ taken = 0
    /\ pc = "start"
    /\ urls = <<>>
    /\ html = None
    /\ obj = NoObj
    /\ upres = "none"
    /\ done = <<>>
    /\ knownAtCall = {}
    /\ ret = {}
    /\ LegacyIdle
    /\ uw = <<>>
    /\ uidx = {}
    /\ writes = <<>>
    /\ dl = DlIdle
    /\ stop = FALSE
    /\ sq = SqIdle
    /\ om = OmIdle
    /\ sc = ScIdle
    /\ pf = PfIdle
    /\ \E en \in BOOLEAN, tok \in BOOLEAN :
        sch = [SchIdle EXCEPT !.pc = "start", !.enabled = en, !.time_ok = tok]
    /\ rt = RtIdle

schedulerFrame == <<wiring, web, store, oid, known, genericVars, legacyVars, uw,
                    uidx, writes, dl, sq, om, sc, pf, rt>>

\* the signal is delivered to the process: _on_signal (17-19) when the
\* handlers of 163-164 are installed, the default disposition before that
Signal(sig) ==
    /\ wiring = "scheduler"
    /\ sch.pc \notin {"idle", "returned", "killed", "interrupted"}
    /\ sch.signals < MaxSignals
    /\ IF sch.handlers
       THEN /\ stop' = TRUE
            /\ sch' = [sch EXCEPT !.signals = sch.signals + 1]
       ELSE /\ stop' = stop
            /\ sch' = [sch EXCEPT !.signals = sch.signals + 1,
                                  !.pc = default_disposition(sig)]
    /\ UNCHANGED schedulerFrame

\* lines 110-141: configuration and logging, then the initial run is
\* entered unless _stop is already set
SchedulerStart ==
    /\ wiring = "scheduler"
    /\ sch.pc = "start"
    /\ sch' = IF stop
              THEN [sch EXCEPT !.pc = "config"]
              ELSE [sch EXCEPT !.pc = "call", !.initial = TRUE,
                               !.attempts = sch.attempts + 1]
    /\ UNCHANGED <<stop, schedulerFrame>>

\* _run_crawler lines 85-100: the crawler module is looked up; without a
\* module (or without a callable main) the call returns, else crawler main
\* is called
RunCrawlerStart ==
    /\ wiring = "scheduler"
    /\ sch.pc = "call"
    /\ \E found \in BOOLEAN :
        sch' = IF found
               THEN [sch EXCEPT !.pc = "run", !.runs = sch.runs + 1]
               ELSE [sch EXCEPT !.pc = "ran", !.outcome = "nomodule"]
    /\ UNCHANGED <<stop, schedulerFrame>>

\* _run_crawler lines 100-105: crawler main returns or raises
RunCrawlerEnd ==
    /\ wiring = "scheduler"
    /\ sch.pc = "run"
    /\ \E o \in RunOutcomes \ {"nomodule"} :
        sch' = [sch EXCEPT !.pc = "ran", !.outcome = o]
    /\ UNCHANGED <<stop, schedulerFrame>>

\* back in main after _run_crawler: lines 142-150 after the initial run,
\* the loop test of line 168 after a scheduled one
AfterRun ==
    /\ wiring = "scheduler"
    /\ sch.pc = "ran"
    /\ sch' = IF run_crawler(sch.outcome) = "raised"
              THEN [sch EXCEPT !.pc = "returned", !.path = "error", !.ret = 1]
              ELSE IF ~sch.initial
              THEN [sch EXCEPT !.pc = "loop"]
              ELSE IF stop
              THEN [sch EXCEPT !.pc = "returned", !.path = "initial", !.ret = 0]
              ELSE [sch EXCEPT !.pc = "config"]
    /\ UNCHANGED <<stop, schedulerFrame>>

\* lines 148-166: a disabled scheduler returns 0; an enabled one parses the
\* time (a ValueError ends main with 1 at 181-183) and installs the handlers
Configure ==
    /\ wiring = "scheduler"
    /\ sch.pc = "config"
    /\ sch' = IF ~sch.enabled
              THEN [sch EXCEPT !.pc = "returned", !.path = "disabled", !.ret = 0]
              ELSE IF ~sch.time_ok
              THEN [sch EXCEPT !.pc = "returned", !.path = "error", !.ret = 1]
              ELSE [sch EXCEPT !.pc = "loop", !.handlers = TRUE, !.initial = FALSE]
    /\ UNCHANGED <<stop, schedulerFrame>>

\* lines 168-171 and 179-180: the loop test, then _next_run_dt, a time
\* strictly after now
LoopTest ==
    /\ wiring = "scheduler"
    /\ sch.pc = "loop"
    /\ stop \/ sch.attempts < MaxAttempts
    /\ \E secs \in 1..MaxWait :
        sch' = IF stop
               THEN [sch EXCEPT !.pc = "returned", !.path = "loop", !.ret = 0]
               ELSE [sch EXCEPT !.pc = "wait", !.secs = secs]
    /\ UNCHANGED <<stop, schedulerFrame>>

\* _sleep_until lines 40-44 (and 171-172, 179-180 for the caller): a set
\* _stop ends the wait with False and main with 0; a wait that has run out
\* returns True
SleepTest ==
    /\ wiring = "scheduler"
    /\ sch.pc = "wait"
    /\ sch' = IF stop
              THEN [sch EXCEPT !.pc = "returned", !.path = "wait", !.ret = 0]
              ELSE IF sch.secs <= 0
              THEN [sch EXCEPT !.pc = "waited"]
              ELSE [sch EXCEPT !.pc = "sleep"]
    /\ UNCHANGED <<stop, schedulerFrame>>

\* _sleep_until line 45: time.sleep of at most one second
Sleep ==
    /\ wiring = "scheduler"
    /\ sch.pc = "sleep"
    /\ sch' = [sch EXCEPT !.pc = "wait", !.secs = sch.secs - 1]
    /\ UNCHANGED <<stop, schedulerFrame>>

\* lines 174-177: _stop is tested once more, then _run_crawler is called
StopTest ==
    /\ wiring = "scheduler"
    /\ sch.pc = "waited"
    /\ sch' = IF stop
              THEN [sch EXCEPT !.pc = "returned", !.path = "waited", !.ret = 0]
              ELSE [sch EXCEPT !.pc = "call", !.attempts = sch.attempts + 1]
    /\ UNCHANGED <<stop, schedulerFrame>>

\* the steps of the main thread
SchedulerStep ==
    \/ SchedulerStart
    \/ RunCrawlerStart
    \/ RunCrawlerEnd
    \/ AfterRun
    \/ Configure
    \/ LoopTest
    \/ SleepTest
    \/ Sleep
    \/ StopTest

NextScheduler ==
    \/ \E sig \in Signals : Signal(sig)
    \/ SchedulerStep

SpecScheduler == InitScheduler /\ [][NextScheduler]_vars

\* the main thread is never suspended for good: every step of main that can
\* be taken is taken
SpecSchedulerFair == SpecScheduler /\ WF_vars(SchedulerStep)

(***************************************************************************)
(* object_model: an ObjectModel is built, serialized with to_dict and      *)
(* read back with from_dict                                                *)
(***************************************************************************)
\* a datetime value and the string datetime.isoformat gives for it
Published == "datetime(2024-05-01 10:00)"
PublishedIso == "2024-05-01T10:00:00"
DateArgs == {None, Published}

\* to_dict lines 258-271 (_serialize_date): a datetime becomes its ISO
\* string, a string stays
serialize_date(val) ==
    IF val = None THEN None
    ELSE IF val = Published THEN PublishedIso
    ELSE val

\* from_dict lines 282-296 (_parse_date): an ISO string becomes a
\* datetime, a string fromisoformat rejects becomes None
parse_date(value) ==
    IF value = PublishedIso THEN Published
    ELSE IF value = Published THEN Published
    ELSE None

\* one entry of pos_taggs: a tuple in the ObjectModel, a list in the dict
PosEntry(kind, tid) ==
    [kind |-> kind, tid |-> tid, token |-> "Haus", lemma |-> "Haus",
     tags |-> "Case=Nom", pos |-> "NOUN"]

PosTaggsArgs == {<<>>, <<PosEntry("tuple", 0)>>,
                 <<PosEntry("tuple", 0), PosEntry("tuple", 1)>>}

RECURSIVE sort_by_tid(_)
\* entries.sort(key=lambda x: int(x[0])), line 181: a stable sort
sort_by_tid(es) ==
    IF Len(es) <= 1 THEN es
    ELSE LET rest == sort_by_tid(Tail(es))
             e == Head(es)
             k == Cardinality({i \in 1..Len(rest) : rest[i].tid < e.tid})
         IN  SubSeq(rest, 1, k) \o <<e>> \o SubSeq(rest, k + 1, Len(rest))

\* _normalize_pos_taggs lines 123-187 on a list of five-element lists or
\* tuples: tuples, sorted by id
normalize_pos_taggs(val) ==
    sort_by_tid([i \in 1..Len(val) |-> [val[i] EXCEPT !.kind = "tuple"]])

\* the keyword arguments of ObjectModel(...)
ArticleKwargs ==
    [_id : 0..MaxId, url : {None, U1}, titel : {None, "Titel"}, teaser : {None},
     autor : {None, "dpa"}, category : {None, "politik"},
     published_date : DateArgs, parsed_date : DateArgs,
     html : {None, PageA}, text : {None, "A"},
     ai_keywords : {<<>>, <<"wahl">>}, pos_taggs : PosTaggsArgs,
     content_hash : {None, Preset}]

\* the fields compared after the round trip
ArticleFields ==
    {"_id", "url", "content_hash", "text", "html", "titel", "teaser", "autor",
     "category", "ai_keywords", "pos_taggs", "parsed_date", "published_date"}

\* ObjectModel.__init__ and __post_init__ (lines 68-120, 189-214) for a
\* given _id: the instance
new_object_model(kw) ==
    [kw EXCEPT !.pos_taggs = normalize_pos_taggs(kw.pos_taggs),
               !.content_hash = post_init_hash(kw.url, kw.html, kw.text,
                                               kw.content_hash)]

\* ObjectModel.to_dict lines 231-276: the dict of the instance
object_model_to_dict(o) ==
    [_id |-> o._id, url |-> o.url, html |-> o.html, text |-> o.text,
     titel |-> o.titel, teaser |-> o.teaser, content_hash |-> o.content_hash,
     autor |-> o.autor, ai_keywords |-> o.ai_keywords,
     pos_taggs |-> [i \in 1..Len(o.pos_taggs) |->
                       [o.pos_taggs[i] EXCEPT !.kind = "list"]],
     parsed_date |-> serialize_date(o.parsed_date),
     published_date |-> serialize_date(o.published_date)]

\* data.get(key): None for a key the dict does not have
dict_get(data, key) == IF key \in DOMAIN data THEN data[key] ELSE None

\* ObjectModel.from_dict lines 279-356 on a dict with a numeric _id and no
\* id key: the instance
object_model_from_dict(data) ==
    new_object_model(
        [_id |-> dict_get(data, "_id"),
         url |-> dict_get(data, "url"),
         autor |-> dict_get(data, "autor"),
         category |-> dict_get(data, "category"),
         published_date |-> parse_date(dict_get(data, "published_date")),
         parsed_date |-> parse_date(dict_get(data, "parsed_date")),
         html |-> dict_get(data, "html"),
         text |-> dict_get(data, "text"),
         ai_keywords |-> dict_get(data, "ai_keywords"),
         pos_taggs |-> normalize_pos_taggs(dict_get(data, "pos_taggs")),
         titel |-> dict_get(data, "titel"),
         teaser |-> dict_get(data, "teaser"),
         content_hash |-> dict_get(data, "content_hash")])

InitRoundTrip ==
    /\ wiring = "roundtrip"
    /\ web \in {[u \in URLs |-> PageA]}
    /\ store = {}
    /\ oid = 1
    /\ known = {}
    /\ calls = 0
    /\ taken = 0
    /\ pc = "start"
    /\ urls = <<>>
    /\ html = None
    /\ obj = NoObj
    /\ upres = "none"
    /\ done = <<>>
    /\ knownAtCall = {}
    /\ ret = {}
    /\ LegacyIdle
    /\ uw = <<>>
    /\ uidx = {}
    /\ writes = <<>>
    /\ dl = DlIdle
    /\ stop = FALSE
    /\ sq = SqIdle
    /\ om = OmIdle
    /\ sc = ScIdle
    /\ pf = PfIdle
    /\ sch = SchIdle
    /\ \E kw \in ArticleKwargs : rt = [RtIdle EXCEPT !.pc = "new", !.kwargs = kw]

roundTripFrame == <<wiring, web, store, oid, known, genericVars, legacyVars, uw,
                    uidx, writes, dl, stop, sq, om, sc, pf, sch>>

\* ObjectModel(**kwargs): the instance; _ensure_next_internal_id_at_least
\* (line 193) moves the counter past its _id
NewObjectModel ==
    /\ wiring = "roundtrip"
    /\ rt.pc = "new"
    /\ rt' = [rt EXCEPT !.pc = "made", !.art = new_object_model(rt.kwargs),
                        !.next = ensure_next_internal_id_at_least(rt.next,
                                                                  rt.kwargs._id)]
    /\ UNCHANGED roundTripFrame

\* art.to_dict()
ToDict ==
    /\ wiring = "roundtrip"
    /\ rt.pc = "made"
    /\ rt' = [rt EXCEPT !.pc = "dict", !.dict = object_model_to_dict(rt.art)]
    /\ UNCHANGED roundTripFrame

\* ObjectModel.from_dict(d): lines 316-317 and 193 leave the counter past
\* the _id of the dict
FromDictBack ==
    /\ wiring = "roundtrip"
    /\ rt.pc = "dict"
    /\ rt' = [rt EXCEPT !.pc = "back", !.back = object_model_from_dict(rt.dict),
                        !.next = ensure_next_internal_id_at_least(rt.next,
                                                                  rt.dict._id)]
    /\ UNCHANGED roundTripFrame

NextRoundTrip ==
    \/ NewObjectModel
    \/ ToDict
    \/ FromDictBack

SpecRoundTrip == InitRoundTrip /\ [][NextRoundTrip]_vars

(***************************************************************************)
(* Claims about the generic pipeline                                       *)
(***************************************************************************)
\* a store write (update_one) was issued by the upsert call
WriteIssued(res) == res \in {"stored", "writefail"}

\* C1: a fingerprint is added to the known-hash set only after the store
\* write for that article has completed successfully; a URL whose upsert
\* raises, is skipped or reports failure leaves the set unchanged.
C1_RegisterOnlyAfterSuccessfulWrite ==
    [][(pc = "register" /\ known' # known) => upres = "stored"]_vars

\* C5: in a run of german_newspaper_crawler.main, every candidate URL whose
\* fetch and parse yield non-empty content and whose fingerprint is not
\* known gets a store write.
C5_NoLostWork ==
    wiring = "main" =>
        \A i \in 1..Len(done) :
            (~empty_extract(done[i].obj) /\ done[i].res # "skipped")
                => WriteIssued(done[i].res)

\* C6: no network fetch is performed for a candidate URL whose URL-derived
\* fingerprint is already in the known-hash set when the URL is taken up.
C6_NoFetchForKnownUrl ==
    [][(pc = "fetch" /\ pc' = "parse") => sha256_hex(Head(urls)) \notin known]_vars

\* C7: no store write is attempted for an article whose URL-derived hash or
\* content-derived hash is in the known-hash set at the post-parse check,
\* also when the hash computation/comparison block fails.
C7_NoWriteWhenEitherHashKnown ==
    [][(pc = "upsert" /\ WriteIssued(upres'))
        => (url_hash(obj) \notin known /\ content_hash_calc(obj) \notin known)]_vars

\* The scenario of C8: known_hashes = {H1}, H1 the hash of U1, candidates
\* [U1, U2], both fetched, every store call made succeeded, the article of
\* U2 stored, the call has returned
C8_Scenario ==
    /\ pc = "assign"
    /\ knownAtCall = {sha256_hex(U1)}
    /\ Len(done) = 2
    /\ done[1].url = U1 /\ done[2].url = U2
    /\ web[U1] # FetchError /\ web[U2] # FetchError
    /\ done[1].res \in {"skipped", "stored"}
    /\ done[2].res = "stored"

\* C8: in that scenario the known-hash set holds exactly two elements when
\* process_domain_generic returns: H1 and the fingerprint of the article
\* parsed from U2.
C8_ExactlyTwo ==
    C8_Scenario =>
        /\ known = {sha256_hex(U1), done[2].obj.content_hash}
        /\ Cardinality(known) = 2

C2_AtMostOneDocPerFingerprint ==
    \A d1, d2 \in store :
        (d1.coll = d2.coll /\ ~Falsy(d1.content_hash)
            /\ d1.content_hash = d2.content_hash) => d1 = d2

\* C4: a second run over the same URL set, seeded from the store the first
\* run left, with no store operation failing, adds no stored document
C4_SecondRunAddsNoDocument ==
    (lm.run = 2 /\ lm.seedOk /\ lm.pc \notin {"start", "discover"}
        /\ lm.urls = lm.prevUrls /\ ~lm.storeFailed)
    => StoredIds(store) = lm.idsAtStart

\* C10: every read of and every add to the shared known-hash set made
\* while pool workers are running is made holding the lock
C10_AccessesHoldTheLock ==
    \A a \in accesses : a.poolBusy => a.locked

(***************************************************************************)
(* Claims about concurrent upserts                                         *)
(***************************************************************************)
AllStored == \A w \in DOMAIN uw : uw[w].pc = "done" /\ uw[w].res = "stored"

\* C3: when all concurrent upsert_article calls for one fingerprint have
\* returned True, the collection holds exactly one document for it
C3_ExactlyOneDocAfterRace ==
    (uw # <<>> /\ AllStored)
    => \A w \in DOMAIN uw :
          Cardinality(Matching(store, Coll, "content_hash", uw[w].obj.content_hash)) = 1

(***************************************************************************)
(* Claims about a single upsert_article call                               *)
(***************************************************************************)
\* C11: the first update_one is keyed by the fingerprint if it is set,
\* otherwise by the article's URL if that is set, and an article with
\* neither is rejected without any update_one
C11_KeySelection ==
    (wiring = "store" /\ pc = "done") =>
        IF ~Falsy(obj.content_hash)
        THEN writes # <<>> =>
                writes[1] = [field |-> "content_hash", val |-> obj.content_hash]
        ELSE IF ~Falsy(obj.url)
        THEN writes # <<>> => writes[1] = [field |-> "url", val |-> obj.url]
        ELSE writes = <<>> /\ upres = "rejected"

\* C12: the retry after a duplicate-key error is keyed by the alternate
\* key: the URL if the primary key was the fingerprint, the fingerprint if
\* the primary key was the URL
C12_RetryUsesAlternateKey ==
    (wiring = "store" /\ Len(writes) = 2) =>
        /\ writes[1].field = "content_hash" => writes[2].field = "url"
        /\ writes[1].field = "url" => writes[2].field = "content_hash"

\* the outcome C13 is about: the first update_one is keyed by the article's
\* URL, the call is not refused, and a stored article is in the collection
\* under its URL
PersistedByUrl ==
    /\ writes # <<>>
    /\ writes[1] = [field |-> "url", val |-> obj.url]
    /\ upres # "rejected"
    /\ upres = "stored" =>
          \E d \in CollectionDocs(store, Coll) : d.url = obj.url /\ d.text = obj.text

\* C13 (as stated): every article the ObjectModel constructor produces with
\* its URL set and its fingerprint unset is persisted keyed by its URL
C13_UrlOnlyArticlePersisted_Original ==
    (wiring = "store" /\ pc = "done" /\ ~Falsy(obj.url) /\ Falsy(obj.content_hash))
    => PersistedByUrl

\* C13 (amended): every such article whose html or text is non-empty after
\* trimming is persisted keyed by its URL
C13_UrlOnlyArticlePersisted ==
    (wiring = "store" /\ pc = "done" /\ ~Falsy(obj.url) /\ Falsy(obj.content_hash)
        /\ ~empty_extract(obj))
    => PersistedByUrl

C13_Witness ==
    /\ wiring = "store" /\ pc = "done"
    /\ ~Falsy(obj.url) /\ Falsy(obj.content_hash) /\ ~empty_extract(obj)
    /\ upres = "stored"
    /\ \E d \in CollectionDocs(store, Coll) : d.url = obj.url /\ d.text = obj.text

(***************************************************************************)
(* Claims about placeholders and failures                                  *)
(***************************************************************************)
\* C14: no document whose html and text are both empty after trimming is
\* ever in the store, whichever entry point wrote it
C14_NoEmptyArticleStored ==
    \A d \in store : ~empty_extract(d)

\* C15: a URL whose fetch fails goes on to the parse stage with an empty
\* body: its future is next at the parse stage, holding the empty string
C15_FailedFetchReachesParse ==
    [][\A u \in URLs :
          (future[u].st = "queued" /\ future'[u].st # "queued" /\ web[u] = FetchError)
          => (future'[u].st = "fetched" /\ future'[u].obj.html = "")]_vars

\* C16: when the domain's parse function raised TypeError, the URL still
\* goes on to the known-hash block with an article: the exception does not
\* leave process_domain_generic
C16_ParserExceptionContained ==
    [][pc = "reparse" => pc' = "check"]_vars

\* C17: TAZ.parse_article_to_object never raises: every URL fetched for a
\* TAZ domain comes out of _fetch_and_parse with status "ok"
C17_TazParseNeverRaises ==
    \A u \in URLs :
        (plugin = "taz" /\ web[u] # FetchError
            /\ future[u].st \in {"completed", "consumed"})
        => future[u].status = "ok"

\* C18: when a run has ended, every configured domain was taken up: no
\* failure of one domain kept a later domain from being processed
C18_LaterDomainsProcessed ==
    (dl.prog # "none" /\ dl.finished) => dl.visited = DOMAIN dl.cfg

\* C19: once the shutdown signal was received during a run, no fetch is
\* started for a URL that had not been started yet
C19_NoFetchAfterShutdown ==
    [][(stop /\ pc = "fetch") => pc' # "parse"]_vars

\* C21: an article that leaves the parser with its fingerprint already set
\* keeps that fingerprint through the known-hash block, whether the block
\* skips the URL or hands the article on to tagging and persisting
C21_PresetFingerprintKept ==
    [][(pc = "check" /\ pc' # "check" /\ obj.content_hash = Preset) =>
        IF pc' = "tag"
        THEN obj'.content_hash = Preset
        ELSE done'[Len(done')].obj.content_hash = Preset]_vars

\* C22: the parsed result object of a candidate whose URL is an http(s) URL carries
\* the SHA-256 of that URL as its fingerprint, whatever its text and html
C22_HttpUrlFingerprintIsUrlHash ==
    \A u \in URLs :
        (/\ future[u].st \in {"completed", "consumed"}
         /\ future[u].status = "ok"
         /\ IsHttpUrl(future[u].obj.id))
            => future[u].obj.content_hash = sha256_hex(future[u].obj.id)

\* the trimmed text of an instance, and its trimmed html
TrimmedText(i) == Strip(Or(i.text, ""))
TrimmedHtml(i) == Strip(Or(i.html, ""))

\* C23: an instance built without a fingerprint and without an http(s) URL
\* gets SHA-256 of its trimmed text, or of its trimmed html when the text
\* trims to nothing, and no fingerprint only when both trim to nothing
C23_ContentFingerprint ==
    \A k \in 1..Len(om.objs) :
        LET i == om.objs[k]
        IN  (~i.preset /\ ~IsHttpUrl(i.url)) =>
                i.content_hash =
                    IF TrimmedText(i) # "" THEN sha256_hex(TrimmedText(i))
                    ELSE IF TrimmedHtml(i) # "" THEN sha256_hex(TrimmedHtml(i))
                    ELSE None

C25_IdNeverReused ==
    \A k, l \in 1..Len(om.objs) :
        k # l => om.objs[k]._id # om.objs[l]._id

\* C26: an _id taken from the counter is strictly greater than every _id
\* taken from the counter before it and than every given or deserialized id
\* (_id or numeric id) the counter was moved past before it
C26_AutoIdAboveAllSeen ==
    \A k \in 1..Len(om.objs) :
        om.objs[k].auto => om.objs[k]._id > om.objs[k].floor

\* an instance took its _id from the counter while another thread was
\* between the ensure step of from_dict and its own __post_init__, the
\* largest id seen so far being that thread's
C26_Witness ==
    \E k \in 1..Len(om.objs) : \E t \in Constructions :
        /\ om.objs[k].auto
        /\ om.th[t].pc = "post"
        /\ om.th[t].max_seen = MaxId
        /\ om.objs[k].floor = MaxId

\* C27: when the scan of the database returns, the set holds every non-empty
\* content_hash of every collection that was read without a failure,
\* wherever the collections that failed stand in the scan order
C27_UnreadableCollectionSkipped ==
    (wiring = "scan" /\ sc.pc = "returned") =>
        \A n \in 1..Len(sc.names) :
            sc.mode[n] = "ok" =>
                \A d \in CollectionDocs(store, sc.names[n]) :
                    ~Falsy(d.content_hash) => d.content_hash \in sc.hashes

\* the first collection of the scan could not be read, a later one held a
\* fingerprint, and the scan returned it
C27_Witness ==
    /\ wiring = "scan"
    /\ sc.pc = "returned"
    /\ sc.mode[1] # "ok"
    /\ CollectionDocs(store, sc.names[1]) # {}
    /\ \E n \in 2..Len(sc.names) :
        /\ sc.mode[n] = "ok"
        /\ \E d \in CollectionDocs(store, sc.names[n]) : d.content_hash \in sc.hashes

\* C28: when the store is unavailable or the listing of the collections
\* fails during seeding, main gets the empty set and goes on to the
\* domains, the first of which is processed with the empty known set
C28_SeedingDegradesToEmpty ==
    [][/\ (wiring = "main" /\ pc = "start" /\ sc'.pc = "failed")
            => (known' = {} /\ pc' = "domain")
       /\ (sc.pc = "failed" /\ pc = "domain" /\ calls = 0 /\ calls' = 1)
            => knownAtCall' = {}]_vars

\* seeding failed over a database that holds an article, and a domain's
\* URL has been processed with the empty known set
C28_Witness ==
    /\ wiring = "main"
    /\ sc.pc = "failed"
    /\ store # {}
    /\ calls = 1
    /\ knownAtCall = {}
    /\ done # <<>>

\* C29: every step that leaves the tagging of an article, the step in which
\* pos_tag_fn raises included, hands the article on with its fingerprint and
\* content unchanged and keeps the remaining URLs; after a pos_tag_fn
\* failure the next step is the persist step
C29_EnrichmentFailureContained ==
    [][/\ (pc = "tag" /\ pc' # "tag")
            => (pc' \in {"tagfailed", "upsert"} /\ obj' = obj /\ urls' = urls)
       /\ (pc = "tagfailed" /\ pc' # "tagfailed")
            => (pc' = "upsert" /\ obj' = obj /\ urls' = urls)]_vars

\* pos_tag_fn has raised for a fingerprinted article while another URL is
\* still waiting
C29_Witness ==
    /\ pc = "tagfailed"
    /\ ~Falsy(obj.content_hash)
    /\ Len(urls) > 1

\* C30: when download_urls returns, every entry of the list was submitted
\* once, the result list holds one result per entry, and the result of a
\* download that timed out or failed says success false and carries an error
C30_OneResultPerUrl ==
    (wiring = "download" /\ pf.pc = "returned") =>
        /\ \A i \in 1..Len(pf.urls) : pf.submits[i] = 1
        /\ Len(pf.results) = Len(pf.urls)
        /\ \A i \in 1..Len(pf.urls) :
            Cardinality({k \in 1..Len(pf.results) : pf.results[k].idx = i}) = 1
        /\ \A k \in 1..Len(pf.results) :
            LET r == pf.results[k]
            IN  /\ r.url = pf.urls[r.idx]
                /\ (~r.skipped /\ pf.net[r.idx] # "ok")
                        => (~r.success /\ r.error # None)

\* download_urls returned for a list whose first download timed out and
\* whose second succeeded, the results standing in the opposite order
C30_Witness ==
    /\ wiring = "download"
    /\ pf.pc = "returned"
    /\ Len(pf.urls) = MaxDownloads
    /\ pf.net[1] = "timeout"
    /\ pf.net[2] = "ok"
    /\ pf.results[1].idx = 2
    /\ pf.results[1].success
    /\ \E k \in 1..Len(pf.results) :
        pf.results[k].idx = 1 /\ ~pf.results[k].success

\* C31: every element of the known-hash set is a non-empty fingerprint
\* string; an article without a fingerprint registers nothing
C31_KnownHoldsOnlyFingerprints ==
    \A h \in known : ~Falsy(h) /\ h # Unhashable

\* an article without a fingerprint went through the register step of a
\* call and the set is as it was when the call began
C31_Witness ==
    /\ done # <<>>
    /\ done[Len(done)].res \notin {"skipped"}
    /\ Falsy(done[Len(done)].obj.content_hash)
    /\ \A k \in 1..Len(done) : Falsy(done[k].obj.content_hash)
    /\ known = knownAtCall

\* C32: the set returned by the scan of lib.common.mongodb holds no hash of
\* a stored document whose text and html are both empty
C32_PlaceholderNotKnown ==
    (wiring = "scan" /\ sc.fn = "mongodb" /\ sc.pc = "returned") =>
        \A d \in store :
            (Strip(Or(d.text, "")) = "" /\ Strip(Or(d.html, "")) = "")
                => d.content_hash \notin sc.hashes

\* the primary write of the call raises DuplicateKeyError in this state
PrimaryClashes ==
    <<"dup", store>> \in update_one_unique(store, Coll, upsert_query(obj), to_dict(obj),
                                           DocId("oid", oid, ""), uidx)

\* C33: a call of upsert_article issues at most two writes, the second only
\* after the first raised a duplicate-key error; the call always ends with
\* a boolean, and with True only in a step whose write succeeded
C33_AtMostOneRetry ==
    [][wiring = "store" =>
        /\ Len(writes') <= 2
        /\ (Len(writes) = 1 /\ Len(writes') = 2) => pc = "retry"
        /\ (pc = "primary" /\ pc' = "retry") => PrimaryClashes
        /\ (pc # "done" /\ pc' = "done")
                => upres' \in {"rejected", "stored", "writefail"}
        /\ (upres # "stored" /\ upres' = "stored")
                => Len(writes') = Len(writes) + 1]_vars

\* the first write clashed with a unique index, the retry keyed by the URL
\* was accepted, and the call returned True after two writes
C33_Witness ==
    /\ wiring = "store"
    /\ pc = "done"
    /\ Len(writes) = 2
    /\ writes[1].field = "content_hash"
    /\ upres = "stored"

\* C34: a _download_single that finds its URL's hash in the known_hashes it
\* was given ends at once with skipped and success true; no request is
\* sent, no file is created, known_hashes is as before
C34_KnownUrlSkipped ==
    [][wiring = "download" =>
        \A i \in 1..Len(pf.urls) :
            (/\ pf.fut[i] = "queued" /\ pf.fut'[i] # "queued"
             /\ pf.shared /\ sha256_hex(pf.urls[i]) \in pf.known)
                => /\ pf.fut'[i] = "finished"
                   /\ pf.res'[i].skipped /\ pf.res'[i].success
                   /\ pf.requests' = pf.requests
                   /\ pf.tmp' = pf.tmp /\ pf.final' = pf.final
                   /\ pf.known' = pf.known]_vars

\* the second entry of the list was skipped because the download of the
\* first, the same URL, had registered its hash
C34_Witness ==
    /\ wiring = "download"
    /\ Len(pf.urls) = 2
    /\ pf.fut[2] \in {"finished", "collected"}
    /\ pf.res[2].skipped
    /\ pf.requests[2] = 0
    /\ pf.requests[1] = 1

\* C35: known_hashes grows only by the URL hash and the content hash of a
\* download whose file is at its final path; a download that ends without
\* success leaves known_hashes as it was, carries an error value and has no
\* temporary file left
C35_RegisteredOnlyAfterMove ==
    [][wiring = "download" =>
        /\ \A h \in pf.known' \ pf.known :
               \E i \in pf.final :
                   h \in {sha256_hex(pf.urls[i]), file_sha256(pf.urls[i])}
        /\ \A i \in 1..Len(pf.urls) :
               (/\ pf.fut[i] \in InFlight /\ pf.fut'[i] = "finished"
                /\ ~pf.res'[i].success)
                   => /\ pf.known' = pf.known
                      /\ pf.res'[i].error # None
                      /\ i \notin pf.tmp'
                      /\ i \notin pf.final']_vars

\* one download failed while its temporary file was being written, another
\* one was moved and registered
C35_Witness ==
    /\ wiring = "download"
    /\ Len(pf.urls) = 2
    /\ pf.net[1] = "writeerror"
    /\ pf.fut[1] = "finished"
    /\ ~pf.res[1].success
    /\ pf.net[2] = "ok"
    /\ pf.fut[2] = "finished"
    /\ file_sha256(pf.urls[2]) \in pf.known

\* C36: once _stop is set, crawler main is not started again
C36_NoRunAfterStop ==
    [][(wiring = "scheduler" /\ stop) => sch.runs' = sch.runs]_vars

\* C37: a signal delivered during the initial run sets _stop
C37_SignalInInitialRunSetsStop ==
    [][(/\ wiring = "scheduler" /\ sch.initial /\ sch.pc = "run"
        /\ sch.signals' > sch.signals) => stop']_vars

\* C38: a scheduled _run_crawler call in which crawler main raised or no
\* module was found is followed, unless _stop gets set, by another
\* _run_crawler call
C38_FailedRunFollowedByAnother ==
    \A n \in 1..(MaxAttempts - 1) :
        (/\ wiring = "scheduler" /\ sch.pc = "ran" /\ ~sch.initial
         /\ sch.attempts = n /\ sch.outcome \in {"raises", "nomodule"})
            ~> (stop \/ sch.attempts > n)

\* the third _run_crawler call is under way after crawler main raised in
\* the second, a scheduled one
C38_Witness ==
    /\ wiring = "scheduler"
    /\ sch.pc = "call"
    /\ sch.attempts = 3
    /\ sch.outcome = "raises"
    /\ ~stop

\* C39: among the URLs one call of process_domain_generic has handled, no
\* two that reached the upsert callback carry the same non-empty fingerprint
C39_OneUpsertPerFingerprint ==
    wiring \in {"main", "callbacks"} =>
        \A i, j \in 1..Len(done) :
            (/\ i < j
             /\ done[i].res # "skipped" /\ done[j].res # "skipped"
             /\ ~Falsy(done[i].obj.content_hash))
                => done[i].obj.content_hash # done[j].obj.content_hash

\* two different URLs yielded one fingerprint: the first was given to the
\* upsert callback, the second was skipped
C39_Witness ==
    /\ wiring = "callbacks"
    /\ Len(done) = 2
    /\ done[1].url # done[2].url
    /\ done[1].res = "stored"
    /\ done[2].res = "skipped"
    /\ ~Falsy(done[1].obj.content_hash)
    /\ done[1].obj.content_hash = done[2].obj.content_hash

\* the same URL twice in the list: upserted once, then skipped
C39_WitnessSameUrl ==
    /\ wiring = "callbacks"
    /\ Len(done) = 2
    /\ done[1].url = done[2].url
    /\ done[1].res = "stored"
    /\ done[2].res = "skipped"

\* C40: from_dict(to_dict(article)) equals the article on each of the
\* thirteen fields
C40_RoundTripKeepsEveryField ==
    (wiring = "roundtrip" /\ rt.pc = "back")
        => \A f \in ArticleFields : rt.back[f] = rt.art[f]

(***************************************************************************)
(* Claims about the sequence counter                                       *)
(***************************************************************************)
\* the calls that have returned so far, as (worker, call number) pairs
SeqCalls == {c \in Workers \X (1..MaxSeqCalls) : c[2] <= Len(sq.rets[c[1]])}
SeqReturned == {sq.rets[c[1]][c[2]] : c \in SeqCalls}

\* C20: with the store available, the k calls of _get_next_sequence that
\* have returned, in any interleaving and starting from counter value s,
\* returned exactly the integers s+1 .. s+k, each of them once
C20_SequenceDense ==
    (wiring = "sequence" /\ sq.fails = 0) =>
        LET k == Cardinality(SeqCalls)
        IN  /\ SeqReturned = (sq.start + 1)..(sq.start + k)
            /\ Cardinality(SeqReturned) = k

\* every worker has made all its calls, interleaved with the other's
C20_Witness ==
    /\ wiring = "sequence"
    /\ sq.fails = 0
    /\ sq.start > 0
    /\ \A w \in Workers : Len(sq.rets[w]) = MaxSeqCalls
    /\ \E w \in Workers : \E i \in 1..(MaxSeqCalls - 1) :
        sq.rets[w][i + 1] > sq.rets[w][i] + 1
====
